---- MODULE Spec2Model ----
(***************************************************************************)
(* Model of the opportunities forwarding bot (src/src/bot.rs and           *)
(* src/src/github_scraper.rs): the per-channel reconciliation pass         *)
(* (moderation, watermark scan, forwarding) and the inline message hook,   *)
(* under Spec; and single calls of its functions and of the markdown       *)
(* walker (src/src/html_walker.rs) on bounded inputs, under PureSpec.      *)
(*                                                                         *)
(* Text is a sequence of tokens.  A token is one character ("/", a digit,  *)
(* " ") or an indivisible chunk of characters that contains neither a      *)
(* digit nor a slash at a place where the link pattern could use it.  The  *)
(* token BASE is the literal the link pattern starts with.                 *)
(***************************************************************************)
EXTENDS Integers, Sequences, FiniteSets, TLC

\* ---------------------------------------------------------------- bounds
\* The number of events in a behaviour: runs of ready and posts by humans,
\* and also calls of handle_channel and posts by humans.
MaxEvents == 3

\* The number of runs of ready that have not returned.
MaxOverlap == 2

\* The size of the start of a behaviour: the messages the channel holds
\* plus the discussions the forum lists.
MaxStart == 3

\* ------------------------------------------------------ program constants
U16Max == 65535

BASE == "/UWAppDev/opportunities-forwarding-bot/discussions/"

OPPORTUNITIES_POST_TO_URL ==
  <<"https://github.com", BASE, "categories/opportunities/">>

\* The characters str::parse takes for a digit of a u16.
AsciiDigits == {"0", "1", "2", "3", "4", "5", "6", "7", "8", "9"}

\* The decimal digits (general category Nd) outside ASCII, each written as
\* the token "(U+<code point>)".
OtherDecimalDigits ==
  { "(U+0660)", "(U+0661)", "(U+0662)", "(U+0663)", "(U+0664)", "(U+0665)",
    "(U+0666)", "(U+0667)", "(U+0668)", "(U+0669)", "(U+06F0)", "(U+06F1)",
    "(U+06F2)", "(U+06F3)", "(U+06F4)", "(U+06F5)", "(U+06F6)", "(U+06F7)",
    "(U+06F8)", "(U+06F9)", "(U+07C0)", "(U+07C1)", "(U+07C2)", "(U+07C3)",
    "(U+07C4)", "(U+07C5)", "(U+07C6)", "(U+07C7)", "(U+07C8)", "(U+07C9)",
    "(U+0966)", "(U+0967)", "(U+0968)", "(U+0969)", "(U+096A)", "(U+096B)",
    "(U+096C)", "(U+096D)", "(U+096E)", "(U+096F)", "(U+09E6)", "(U+09E7)",
    "(U+09E8)", "(U+09E9)", "(U+09EA)", "(U+09EB)", "(U+09EC)", "(U+09ED)",
    "(U+09EE)", "(U+09EF)", "(U+0A66)", "(U+0A67)", "(U+0A68)", "(U+0A69)",
    "(U+0A6A)", "(U+0A6B)", "(U+0A6C)", "(U+0A6D)", "(U+0A6E)", "(U+0A6F)",
    "(U+0AE6)", "(U+0AE7)", "(U+0AE8)", "(U+0AE9)", "(U+0AEA)", "(U+0AEB)",
    "(U+0AEC)", "(U+0AED)", "(U+0AEE)", "(U+0AEF)", "(U+0B66)", "(U+0B67)",
    "(U+0B68)", "(U+0B69)", "(U+0B6A)", "(U+0B6B)", "(U+0B6C)", "(U+0B6D)",
    "(U+0B6E)", "(U+0B6F)", "(U+0BE6)", "(U+0BE7)", "(U+0BE8)", "(U+0BE9)",
    "(U+0BEA)", "(U+0BEB)", "(U+0BEC)", "(U+0BED)", "(U+0BEE)", "(U+0BEF)",
    "(U+0C66)", "(U+0C67)", "(U+0C68)", "(U+0C69)", "(U+0C6A)", "(U+0C6B)",
    "(U+0C6C)", "(U+0C6D)", "(U+0C6E)", "(U+0C6F)", "(U+0CE6)", "(U+0CE7)",
    "(U+0CE8)", "(U+0CE9)", "(U+0CEA)", "(U+0CEB)", "(U+0CEC)", "(U+0CED)",
    "(U+0CEE)", "(U+0CEF)", "(U+0D66)", "(U+0D67)", "(U+0D68)", "(U+0D69)",
    "(U+0D6A)", "(U+0D6B)", "(U+0D6C)", "(U+0D6D)", "(U+0D6E)", "(U+0D6F)",
    "(U+0DE6)", "(U+0DE7)", "(U+0DE8)", "(U+0DE9)", "(U+0DEA)", "(U+0DEB)",
    "(U+0DEC)", "(U+0DED)", "(U+0DEE)", "(U+0DEF)", "(U+0E50)", "(U+0E51)",
    "(U+0E52)", "(U+0E53)", "(U+0E54)", "(U+0E55)", "(U+0E56)", "(U+0E57)",
    "(U+0E58)", "(U+0E59)", "(U+0ED0)", "(U+0ED1)", "(U+0ED2)", "(U+0ED3)",
    "(U+0ED4)", "(U+0ED5)", "(U+0ED6)", "(U+0ED7)", "(U+0ED8)", "(U+0ED9)",
    "(U+0F20)", "(U+0F21)", "(U+0F22)", "(U+0F23)", "(U+0F24)", "(U+0F25)",
    "(U+0F26)", "(U+0F27)", "(U+0F28)", "(U+0F29)", "(U+1040)", "(U+1041)",
    "(U+1042)", "(U+1043)", "(U+1044)", "(U+1045)", "(U+1046)", "(U+1047)",
    "(U+1048)", "(U+1049)", "(U+1090)", "(U+1091)", "(U+1092)", "(U+1093)",
    "(U+1094)", "(U+1095)", "(U+1096)", "(U+1097)", "(U+1098)", "(U+1099)",
    "(U+17E0)", "(U+17E1)", "(U+17E2)", "(U+17E3)", "(U+17E4)", "(U+17E5)",
    "(U+17E6)", "(U+17E7)", "(U+17E8)", "(U+17E9)", "(U+1810)", "(U+1811)",
    "(U+1812)", "(U+1813)", "(U+1814)", "(U+1815)", "(U+1816)", "(U+1817)",
    "(U+1818)", "(U+1819)", "(U+1946)", "(U+1947)", "(U+1948)", "(U+1949)",
    "(U+194A)", "(U+194B)", "(U+194C)", "(U+194D)", "(U+194E)", "(U+194F)",
    "(U+19D0)", "(U+19D1)", "(U+19D2)", "(U+19D3)", "(U+19D4)", "(U+19D5)",
    "(U+19D6)", "(U+19D7)", "(U+19D8)", "(U+19D9)", "(U+1A80)", "(U+1A81)",
    "(U+1A82)", "(U+1A83)", "(U+1A84)", "(U+1A85)", "(U+1A86)", "(U+1A87)",
    "(U+1A88)", "(U+1A89)", "(U+1A90)", "(U+1A91)", "(U+1A92)", "(U+1A93)",
    "(U+1A94)", "(U+1A95)", "(U+1A96)", "(U+1A97)", "(U+1A98)", "(U+1A99)",
    "(U+1B50)", "(U+1B51)", "(U+1B52)", "(U+1B53)", "(U+1B54)", "(U+1B55)",
    "(U+1B56)", "(U+1B57)", "(U+1B58)", "(U+1B59)", "(U+1BB0)", "(U+1BB1)",
    "(U+1BB2)", "(U+1BB3)", "(U+1BB4)", "(U+1BB5)", "(U+1BB6)", "(U+1BB7)",
    "(U+1BB8)", "(U+1BB9)", "(U+1C40)", "(U+1C41)", "(U+1C42)", "(U+1C43)",
    "(U+1C44)", "(U+1C45)", "(U+1C46)", "(U+1C47)", "(U+1C48)", "(U+1C49)",
    "(U+1C50)", "(U+1C51)", "(U+1C52)", "(U+1C53)", "(U+1C54)", "(U+1C55)",
    "(U+1C56)", "(U+1C57)", "(U+1C58)", "(U+1C59)", "(U+A620)", "(U+A621)",
    "(U+A622)", "(U+A623)", "(U+A624)", "(U+A625)", "(U+A626)", "(U+A627)",
    "(U+A628)", "(U+A629)", "(U+A8D0)", "(U+A8D1)", "(U+A8D2)", "(U+A8D3)",
    "(U+A8D4)", "(U+A8D5)", "(U+A8D6)", "(U+A8D7)", "(U+A8D8)", "(U+A8D9)",
    "(U+A900)", "(U+A901)", "(U+A902)", "(U+A903)", "(U+A904)", "(U+A905)",
    "(U+A906)", "(U+A907)", "(U+A908)", "(U+A909)", "(U+A9D0)", "(U+A9D1)",
    "(U+A9D2)", "(U+A9D3)", "(U+A9D4)", "(U+A9D5)", "(U+A9D6)", "(U+A9D7)",
    "(U+A9D8)", "(U+A9D9)", "(U+A9F0)", "(U+A9F1)", "(U+A9F2)", "(U+A9F3)",
    "(U+A9F4)", "(U+A9F5)", "(U+A9F6)", "(U+A9F7)", "(U+A9F8)", "(U+A9F9)",
    "(U+AA50)", "(U+AA51)", "(U+AA52)", "(U+AA53)", "(U+AA54)", "(U+AA55)",
    "(U+AA56)", "(U+AA57)", "(U+AA58)", "(U+AA59)", "(U+ABF0)", "(U+ABF1)",
    "(U+ABF2)", "(U+ABF3)", "(U+ABF4)", "(U+ABF5)", "(U+ABF6)", "(U+ABF7)",
    "(U+ABF8)", "(U+ABF9)", "(U+FF10)", "(U+FF11)", "(U+FF12)", "(U+FF13)",
    "(U+FF14)", "(U+FF15)", "(U+FF16)", "(U+FF17)", "(U+FF18)", "(U+FF19)",
    "(U+104A0)", "(U+104A1)", "(U+104A2)", "(U+104A3)", "(U+104A4)",
    "(U+104A5)", "(U+104A6)", "(U+104A7)", "(U+104A8)", "(U+104A9)",
    "(U+10D30)", "(U+10D31)", "(U+10D32)", "(U+10D33)", "(U+10D34)",
    "(U+10D35)", "(U+10D36)", "(U+10D37)", "(U+10D38)", "(U+10D39)",
    "(U+11066)", "(U+11067)", "(U+11068)", "(U+11069)", "(U+1106A)",
    "(U+1106B)", "(U+1106C)", "(U+1106D)", "(U+1106E)", "(U+1106F)",
    "(U+110F0)", "(U+110F1)", "(U+110F2)", "(U+110F3)", "(U+110F4)",
    "(U+110F5)", "(U+110F6)", "(U+110F7)", "(U+110F8)", "(U+110F9)",
    "(U+11136)", "(U+11137)", "(U+11138)", "(U+11139)", "(U+1113A)",
    "(U+1113B)", "(U+1113C)", "(U+1113D)", "(U+1113E)", "(U+1113F)",
    "(U+111D0)", "(U+111D1)", "(U+111D2)", "(U+111D3)", "(U+111D4)",
    "(U+111D5)", "(U+111D6)", "(U+111D7)", "(U+111D8)", "(U+111D9)",
    "(U+112F0)", "(U+112F1)", "(U+112F2)", "(U+112F3)", "(U+112F4)",
    "(U+112F5)", "(U+112F6)", "(U+112F7)", "(U+112F8)", "(U+112F9)",
    "(U+11450)", "(U+11451)", "(U+11452)", "(U+11453)", "(U+11454)",
    "(U+11455)", "(U+11456)", "(U+11457)", "(U+11458)", "(U+11459)",
    "(U+114D0)", "(U+114D1)", "(U+114D2)", "(U+114D3)", "(U+114D4)",
    "(U+114D5)", "(U+114D6)", "(U+114D7)", "(U+114D8)", "(U+114D9)",
    "(U+11650)", "(U+11651)", "(U+11652)", "(U+11653)", "(U+11654)",
    "(U+11655)", "(U+11656)", "(U+11657)", "(U+11658)", "(U+11659)",
    "(U+116C0)", "(U+116C1)", "(U+116C2)", "(U+116C3)", "(U+116C4)",
    "(U+116C5)", "(U+116C6)", "(U+116C7)", "(U+116C8)", "(U+116C9)",
    "(U+11730)", "(U+11731)", "(U+11732)", "(U+11733)", "(U+11734)",
    "(U+11735)", "(U+11736)", "(U+11737)", "(U+11738)", "(U+11739)",
    "(U+118E0)", "(U+118E1)", "(U+118E2)", "(U+118E3)", "(U+118E4)",
    "(U+118E5)", "(U+118E6)", "(U+118E7)", "(U+118E8)", "(U+118E9)",
    "(U+11950)", "(U+11951)", "(U+11952)", "(U+11953)", "(U+11954)",
    "(U+11955)", "(U+11956)", "(U+11957)", "(U+11958)", "(U+11959)",
    "(U+11C50)", "(U+11C51)", "(U+11C52)", "(U+11C53)", "(U+11C54)",
    "(U+11C55)", "(U+11C56)", "(U+11C57)", "(U+11C58)", "(U+11C59)",
    "(U+11D50)", "(U+11D51)", "(U+11D52)", "(U+11D53)", "(U+11D54)",
    "(U+11D55)", "(U+11D56)", "(U+11D57)", "(U+11D58)", "(U+11D59)",
    "(U+11DA0)", "(U+11DA1)", "(U+11DA2)", "(U+11DA3)", "(U+11DA4)",
    "(U+11DA5)", "(U+11DA6)", "(U+11DA7)", "(U+11DA8)", "(U+11DA9)",
    "(U+16A60)", "(U+16A61)", "(U+16A62)", "(U+16A63)", "(U+16A64)",
    "(U+16A65)", "(U+16A66)", "(U+16A67)", "(U+16A68)", "(U+16A69)",
    "(U+16AC0)", "(U+16AC1)", "(U+16AC2)", "(U+16AC3)", "(U+16AC4)",
    "(U+16AC5)", "(U+16AC6)", "(U+16AC7)", "(U+16AC8)", "(U+16AC9)",
    "(U+16B50)", "(U+16B51)", "(U+16B52)", "(U+16B53)", "(U+16B54)",
    "(U+16B55)", "(U+16B56)", "(U+16B57)", "(U+16B58)", "(U+16B59)",
    "(U+1D7CE)", "(U+1D7CF)", "(U+1D7D0)", "(U+1D7D1)", "(U+1D7D2)",
    "(U+1D7D3)", "(U+1D7D4)", "(U+1D7D5)", "(U+1D7D6)", "(U+1D7D7)",
    "(U+1D7D8)", "(U+1D7D9)", "(U+1D7DA)", "(U+1D7DB)", "(U+1D7DC)",
    "(U+1D7DD)", "(U+1D7DE)", "(U+1D7DF)", "(U+1D7E0)", "(U+1D7E1)",
    "(U+1D7E2)", "(U+1D7E3)", "(U+1D7E4)", "(U+1D7E5)", "(U+1D7E6)",
    "(U+1D7E7)", "(U+1D7E8)", "(U+1D7E9)", "(U+1D7EA)", "(U+1D7EB)",
    "(U+1D7EC)", "(U+1D7ED)", "(U+1D7EE)", "(U+1D7EF)", "(U+1D7F0)",
    "(U+1D7F1)", "(U+1D7F2)", "(U+1D7F3)", "(U+1D7F4)", "(U+1D7F5)",
    "(U+1D7F6)", "(U+1D7F7)", "(U+1D7F8)", "(U+1D7F9)", "(U+1D7FA)",
    "(U+1D7FB)", "(U+1D7FC)", "(U+1D7FD)", "(U+1D7FE)", "(U+1D7FF)",
    "(U+1E140)", "(U+1E141)", "(U+1E142)", "(U+1E143)", "(U+1E144)",
    "(U+1E145)", "(U+1E146)", "(U+1E147)", "(U+1E148)", "(U+1E149)",
    "(U+1E2F0)", "(U+1E2F1)", "(U+1E2F2)", "(U+1E2F3)", "(U+1E2F4)",
    "(U+1E2F5)", "(U+1E2F6)", "(U+1E2F7)", "(U+1E2F8)", "(U+1E2F9)",
    "(U+1E950)", "(U+1E951)", "(U+1E952)", "(U+1E953)", "(U+1E954)",
    "(U+1E955)", "(U+1E956)", "(U+1E957)", "(U+1E958)", "(U+1E959)",
    "(U+1FBF0)", "(U+1FBF1)", "(U+1FBF2)", "(U+1FBF3)", "(U+1FBF4)",
    "(U+1FBF5)", "(U+1FBF6)", "(U+1FBF7)", "(U+1FBF8)", "(U+1FBF9)",
    "(U+10D40)", "(U+10D41)", "(U+10D42)", "(U+10D43)", "(U+10D44)",
    "(U+10D45)", "(U+10D46)", "(U+10D47)", "(U+10D48)", "(U+10D49)",
    "(U+116D0)", "(U+116D1)", "(U+116D2)", "(U+116D3)", "(U+116D4)",
    "(U+116D5)", "(U+116D6)", "(U+116D7)", "(U+116D8)", "(U+116D9)",
    "(U+116DA)", "(U+116DB)", "(U+116DC)", "(U+116DD)", "(U+116DE)",
    "(U+116DF)", "(U+116E0)", "(U+116E1)", "(U+116E2)", "(U+116E3)",
    "(U+11BF0)", "(U+11BF1)", "(U+11BF2)", "(U+11BF3)", "(U+11BF4)",
    "(U+11BF5)", "(U+11BF6)", "(U+11BF7)", "(U+11BF8)", "(U+11BF9)",
    "(U+11F50)", "(U+11F51)", "(U+11F52)", "(U+11F53)", "(U+11F54)",
    "(U+11F55)", "(U+11F56)", "(U+11F57)", "(U+11F58)", "(U+11F59)",
    "(U+16130)", "(U+16131)", "(U+16132)", "(U+16133)", "(U+16134)",
    "(U+16135)", "(U+16136)", "(U+16137)", "(U+16138)", "(U+16139)",
    "(U+16D70)", "(U+16D71)", "(U+16D72)", "(U+16D73)", "(U+16D74)",
    "(U+16D75)", "(U+16D76)", "(U+16D77)", "(U+16D78)", "(U+16D79)",
    "(U+1CCF0)", "(U+1CCF1)", "(U+1CCF2)", "(U+1CCF3)", "(U+1CCF4)",
    "(U+1CCF5)", "(U+1CCF6)", "(U+1CCF7)", "(U+1CCF8)", "(U+1CCF9)",
    "(U+1E4F0)", "(U+1E4F1)", "(U+1E4F2)", "(U+1E4F3)", "(U+1E4F4)",
    "(U+1E4F5)", "(U+1E4F6)", "(U+1E4F7)", "(U+1E4F8)", "(U+1E4F9)",
    "(U+1E5F1)", "(U+1E5F2)", "(U+1E5F3)", "(U+1E5F4)", "(U+1E5F5)",
    "(U+1E5F6)", "(U+1E5F7)", "(U+1E5F8)", "(U+1E5F9)", "(U+1E5FA)" }

\* The characters \d of the pattern matches: the regex is built with
\* Unicode on, so \d is any decimal digit, ASCII or not.
Digits == AsciiDigits \cup OtherDecimalDigits

DigitVal(d) ==
  CASE d = "0" -> 0 [] d = "1" -> 1 [] d = "2" -> 2 [] d = "3" -> 3
    [] d = "4" -> 4 [] d = "5" -> 5 [] d = "6" -> 6 [] d = "7" -> 7
    [] d = "8" -> 8 [] d = "9" -> 9

\* ------------------------------------------------------- helper operators
Max(a, b) == IF a >= b THEN a ELSE b

RECURSIVE SkipWhile(_, _, _)
\* The first position >= i of text whose token is not in set.
SkipWhile(text, i, set) ==
  IF i <= Len(text) /\ text[i] \in set THEN SkipWhile(text, i + 1, set) ELSE i

RECURSIVE ParseDigits(_, _)
\* str::parse of a run of digits, as an unbounded natural number.
ParseDigits(ds, acc) ==
  IF ds = <<>> THEN acc ELSE ParseDigits(Tail(ds), 10 * acc + DigitVal(Head(ds)))

RECURSIVE Captures(_, _)
\* RE.captures_iter(text): the leftmost, non-overlapping matches of
\* BASE [/]* (\d+), each with its full text and its digit run.
Captures(text, i) ==
  IF i > Len(text) THEN <<>>
  ELSE IF text[i] # BASE THEN Captures(text, i + 1)
  ELSE LET j == SkipWhile(text, i + 1, {"/"})
           k == SkipWhile(text, j, Digits)
       IN IF k = j THEN Captures(text, i + 1)
          ELSE <<[content |-> SubSeq(text, i, k - 1),
                  digits |-> SubSeq(text, j, k - 1)]>> \o Captures(text, k)

\* str::parse::<u16> of a captured run: Err(InvalidDigit) when a character
\* of the run is not an ASCII digit, Err(PosOverflow) when the number does
\* not fit u16.
parse_fails(ds) ==
  \/ \E n \in 1..Len(ds) : ds[n] \notin AsciiDigits
  \/ ParseDigits(ds, 0) > U16Max

\* captures["id"].parse().unwrap() panics on a run that does not parse.
pull_from_panics(text) ==
  \E n \in 1..Len(Captures(text, 1)) : parse_fails(Captures(text, 1)[n].digits)

DiscussionLink_new(full_link_text, id) == [content |-> full_link_text, id |-> id]

\* A filter that keeps every link, seen before or not.
FilterSeenKeepsAll(links, seen_ids) == links

RECURSIVE FilterSeen(_, _)
\* The .filter closure over seen_ids: the first link of each id is kept.
FilterSeen(links, seen_ids) ==
  IF links = <<>> THEN <<>>
  ELSE IF Head(links).id \in seen_ids THEN FilterSeen(Tail(links), seen_ids)
  ELSE <<Head(links)>> \o FilterSeen(Tail(links), seen_ids \cup {Head(links).id})

RECURSIVE InsertById(_, _)
InsertById(link, sorted) ==
  IF sorted = <<>> THEN <<link>>
  ELSE IF link.id < Head(sorted).id THEN <<link>> \o sorted
  ELSE <<Head(sorted)>> \o InsertById(link, Tail(sorted))

\* A sort that leaves the links in match order.
SortByIdSkipped(links) == links

RECURSIVE SortById(_)
\* res.sort_by(|a, b| a.id.cmp(&b.id))
SortById(links) ==
  IF links = <<>> THEN <<>>
  ELSE InsertById(links[Len(links)], SortById(SubSeq(links, 1, Len(links) - 1)))

\* DiscussionLink::pull_from, on a text it does not panic on.
pull_from(text) ==
  LET caps == Captures(text, 1)
      all == [n \in 1..Len(caps) |->
                DiscussionLink_new(caps[n].content, ParseDigits(caps[n].digits, 0))]
  IN SortById(FilterSeen(all, {}))

get_id(link) == link.id

\* The characters of a token, for starts_with: all of them for a token of
\* up to six characters, the first six for a longer one.  A token that is
\* not listed is a single character.
Spell(token) ==
  CASE token = BASE -> <<"/", "U", "W", "A", "p", "p">>
    [] token = "https://github.com" -> <<"h", "t", "t", "p", "s", ":">>
    [] token = "http" -> <<"h", "t", "t", "p">>
    [] token = "ht" -> <<"h", "t">>
    [] token = "tp" -> <<"t", "p">>
    [] token = "github" -> <<"g", "i", "t", "h", "u", "b">>
    [] token = "git" -> <<"g", "i", "t">>
    [] token = "hub" -> <<"h", "u", "b">>
    [] token = "www." -> <<"w", "w", "w", ".">>
    [] token = "ww" -> <<"w", "w">>
    [] OTHER -> <<token>>

RECURSIVE LeadingChars(_, _)
\* The first k characters of a text, or all of them if it has fewer.
LeadingChars(text, k) ==
  IF text = <<>> \/ k <= 0 THEN <<>>
  ELSE LET head == Spell(Head(text))
       IN IF Len(head) >= k THEN SubSeq(head, 1, k)
          ELSE head \o LeadingChars(Tail(text), k - Len(head))

\* str::starts_with, for a prefix given by its characters.
StartsWith(text, prefix) == LeadingChars(text, Len(prefix)) = prefix

\* A get_url that does not know the prefix "www.".
get_urlWithoutWww(link) ==
  IF StartsWith(link.content, <<"h", "t", "t", "p">>) THEN link.content
  ELSE IF StartsWith(link.content, <<"g", "i", "t", "h", "u", "b">>)
       THEN <<"https://">> \o link.content
  ELSE IF StartsWith(link.content, <<"/">>)
       THEN <<"https://github.com">> \o link.content
  ELSE <<"https://github.com/">> \o link.content

\* DiscussionLink::get_url
get_url(link) ==
  IF StartsWith(link.content, <<"h", "t", "t", "p">>) THEN link.content
  ELSE IF \/ StartsWith(link.content, <<"g", "i", "t", "h", "u", "b">>)
          \/ StartsWith(link.content, <<"w", "w", "w", ".">>)
       THEN <<"https://">> \o link.content
  ELSE IF StartsWith(link.content, <<"/">>)
       THEN <<"https://github.com">> \o link.content
  ELSE <<"https://github.com/">> \o link.content

\* ------------------------------------------------------------------ text
\* In a text that is trimmed, a chunk neither starts nor ends with
\* whitespace: whitespace there is a token of its own.
\* The characters str::trim removes are those with the property
\* White_Space; one that a TLA+ string cannot hold is written as the token
\* "(U+<code point>)".
Whitespace ==
  { "\t", "\n", "(U+000B)", "\f", "\r", " ", "(U+0085)", "(U+00A0)",
    "(U+1680)", "(U+2000)", "(U+2001)", "(U+2002)", "(U+2003)", "(U+2004)",
    "(U+2005)", "(U+2006)", "(U+2007)", "(U+2008)", "(U+2009)", "(U+200A)",
    "(U+2028)", "(U+2029)", "(U+202F)", "(U+205F)", "(U+3000)" }

RECURSIVE TrimStart(_)
TrimStart(text) ==
  IF text # <<>> /\ Head(text) \in Whitespace THEN TrimStart(Tail(text)) ELSE text

RECURSIVE TrimEnd(_)
TrimEnd(text) ==
  IF text # <<>> /\ text[Len(text)] \in Whitespace
  THEN TrimEnd(SubSeq(text, 1, Len(text) - 1)) ELSE text

\* str::trim
Trim(text) == TrimEnd(TrimStart(text))

\* ------------------------------------------------------------- html trees
\* A parsed document is a tree of nodes: text nodes, comment nodes and
\* elements with a name, an optional href attribute (<<>> or <<text>>) and
\* children.
T(text) ==
  [kind |-> "text", name |-> "", href |-> <<>>, text |-> text, kids |-> <<>>]

Cm(text) ==
  [kind |-> "comment", name |-> "", href |-> <<>>, text |-> text, kids |-> <<>>]

E(name, kids) ==
  [kind |-> "elem", name |-> name, href |-> <<>>, text |-> <<>>, kids |-> kids]

A(href, kids) ==
  [kind |-> "elem", name |-> "a", href |-> <<href>>, text |-> <<>>, kids |-> kids]

RECURSIVE NodeText(_)
\* select::node::Node::text: the text nodes below the node, in order.
NodeText(node) ==
  IF node.kind = "text" THEN node.text
  ELSE LET F[n \in 0..Len(node.kids)] ==
             IF n = 0 THEN <<>> ELSE F[n - 1] \o NodeText(node.kids[n])
       IN F[Len(node.kids)]

\* -------------------------------------------------------- markdown walker
\* MarkdownWalker of html_walker.rs.  The buffer is the sequence of the
\* tokens added so far; use_bold_for_headers is the walker's one option.
\* The token for the backquote character, which a TLA+ string cannot hold.
BACKQUOTE == "(backquote)"

RECURSIVE visit(_, _)
RECURSIVE visit_children(_, _)
RECURSIVE visit_header(_, _, _)
RECURSIVE visit_headerOneLine(_, _, _)

\* A header without the newline after it.
visit_headerOneLine(node, level, use_bold_for_headers) ==
  <<"\n">>
    \o (IF ~use_bold_for_headers
        THEN [n \in 1..level |-> "#"] \o <<" ">>
        ELSE <<"**">>)
    \o visit_children(node, use_bold_for_headers)
    \o (IF use_bold_for_headers THEN <<"**">> ELSE <<>>)

\* MarkdownWalker::visit_header
visit_header(node, level, use_bold_for_headers) ==
  <<"\n">>
    \o (IF ~use_bold_for_headers
        THEN [n \in 1..level |-> "#"] \o <<" ">>
        ELSE <<"**">>)
    \o visit_children(node, use_bold_for_headers)
    \o (IF use_bold_for_headers THEN <<"**">> ELSE <<>>)
    \o <<"\n">>

\* MarkdownWalker::visit_children
visit_children(node, use_bold_for_headers) ==
  LET F[n \in 0..Len(node.kids)] ==
        IF n = 0 THEN <<>>
        ELSE F[n - 1] \o visit(node.kids[n], use_bold_for_headers)
  IN F[Len(node.kids)]

\* A visit that writes nothing for an element it has no rule for.
visitListedOnly(node, use_bold_for_headers) ==
  LET children == visit_children(node, use_bold_for_headers)
  IN IF node.kind = "text" THEN NodeText(node)
     ELSE IF node.kind = "comment" THEN <<>>
     ELSE IF node.name \in {"p", "div", "tr"} THEN children \o <<"\n">>
     ELSE IF node.name = "br" THEN <<"\n">>
     ELSE IF node.name = "a"
          THEN <<"[">> \o children \o <<"]">>
                 \o (IF node.href # <<>>
                     THEN <<"(">> \o node.href[1] \o <<")", " ">>
                     ELSE <<>>)
     ELSE IF node.name \in {"i", "emph"} THEN <<"_">> \o children \o <<"_">>
     ELSE IF node.name \in {"b", "strong"} THEN <<"**">> \o children \o <<"**">>
     ELSE IF node.name = "code" THEN <<BACKQUOTE>> \o children \o <<BACKQUOTE>>
     ELSE IF node.name = "pre"
          THEN <<"\n", BACKQUOTE, BACKQUOTE, BACKQUOTE, "\n">> \o children
                 \o <<"\n", BACKQUOTE, BACKQUOTE, BACKQUOTE, "\n">>
     ELSE IF node.name = "h1" THEN visit_header(node, 1, use_bold_for_headers)
     ELSE IF node.name = "h2" THEN visit_header(node, 2, use_bold_for_headers)
     ELSE IF node.name = "h3" THEN visit_header(node, 3, use_bold_for_headers)
     ELSE IF node.name = "quote"
          THEN <<"\n", ">", " ">> \o children \o <<"\n">>
     ELSE <<>>

\* MarkdownWalker::visit: what it adds to the buffer for a node.
visit(node, use_bold_for_headers) ==
  LET children == visit_children(node, use_bold_for_headers)
  IN IF node.kind = "text" THEN NodeText(node)
     ELSE IF node.kind = "comment" THEN <<>>
     ELSE IF node.name \in {"p", "div", "tr"} THEN children \o <<"\n">>
     ELSE IF node.name = "br" THEN <<"\n">>
     ELSE IF node.name = "a"
          THEN <<"[">> \o children \o <<"]">>
                 \o (IF node.href # <<>>
                     THEN <<"(">> \o node.href[1] \o <<")", " ">>
                     ELSE <<>>)
     ELSE IF node.name \in {"i", "emph"} THEN <<"_">> \o children \o <<"_">>
     ELSE IF node.name \in {"b", "strong"} THEN <<"**">> \o children \o <<"**">>
     ELSE IF node.name = "code" THEN <<BACKQUOTE>> \o children \o <<BACKQUOTE>>
     ELSE IF node.name = "pre"
          THEN <<"\n", BACKQUOTE, BACKQUOTE, BACKQUOTE, "\n">> \o children
                 \o <<"\n", BACKQUOTE, BACKQUOTE, BACKQUOTE, "\n">>
     ELSE IF node.name = "h1" THEN visit_header(node, 1, use_bold_for_headers)
     ELSE IF node.name = "h2" THEN visit_header(node, 2, use_bold_for_headers)
     ELSE IF node.name = "h3" THEN visit_header(node, 3, use_bold_for_headers)
     ELSE IF node.name = "quote"
          THEN <<"\n", ">", " ">> \o children \o <<"\n">>
     ELSE children

\* --------------------------------------------------------- html parsing
\* Document::from parses a text by the tree construction of the HTML
\* standard.  An html is given by the nodes as they are written, every
\* element with its start tag, its children and its end tag (br: the start
\* tag alone); the parser reads the tags in order and builds the tree.
\* The rules below are those for the elements of ElementNames.

\* The input stream turns a carriage return, with the line feed after it
\* if there is one, into a line feed.  It is the stream of the whole text:
\* the line feed may be written in the text node after the one that ends
\* with the carriage return.
RECURSIVE normalize_newlines(_)
normalize_newlines(text) ==
  IF text = <<>> THEN <<>>
  ELSE IF Head(text) = "\r"
       THEN <<"\n">> \o normalize_newlines(
              IF Len(text) > 1 /\ text[2] = "\n" THEN Tail(Tail(text))
              ELSE Tail(text))
  ELSE <<Head(text)>> \o normalize_newlines(Tail(text))

StartTag(name, href) == [k |-> "start", name |-> name, href |-> href, text |-> <<>>]
EndTag(name) == [k |-> "end", name |-> name, href |-> <<>>, text |-> <<>>]
TextToken(text) == [k |-> "text", name |-> "", href |-> <<>>, text |-> text]
CommentToken(text) == [k |-> "comment", name |-> "", href |-> <<>>, text |-> text]

RECURSIVE join_texts(_)
\* Text nodes written one after the other are one run of characters in the
\* text the parser reads.
join_texts(nodes) ==
  IF Len(nodes) < 2 THEN nodes
  ELSE IF nodes[1].kind = "text" /\ nodes[2].kind = "text"
       THEN join_texts(<<T(nodes[1].text \o nodes[2].text)>> \o Tail(Tail(nodes)))
  ELSE <<Head(nodes)>> \o join_texts(Tail(nodes))

RECURSIVE Tags(_)
\* The tokens of an html, in the order of the text.
Tags(written) ==
  IF written = <<>> THEN <<>>
  ELSE LET nodes == join_texts(written)
           node == Head(nodes)
           mine ==
             IF node.kind = "text"
             THEN IF node.text = <<>> THEN <<>>
                  ELSE <<TextToken(normalize_newlines(node.text))>>
             ELSE IF node.kind = "comment" THEN <<CommentToken(node.text)>>
             ELSE IF node.name = "br" THEN <<StartTag("br", node.href)>>
             ELSE <<StartTag(node.name, node.href)>> \o Tags(node.kids)
                    \o <<EndTag(node.name)>>
       IN mine \o Tags(Tail(nodes))

\* The whitespace of the parser, after the input stream.
ParserWhitespace == {"\t", "\n", "\f", " "}

HeadingNames == {"h1", "h2", "h3", "h4", "h5", "h6"}

\* The formatting elements.
FormattingNames ==
  {"a", "b", "big", "code", "em", "font", "i", "nobr", "s", "small", "strike",
   "strong", "tt", "u"}

\* The parts of a table, whose tags the body ignores outside a table.
TableParts ==
  {"caption", "col", "colgroup", "frame", "head", "tbody", "td", "tfoot", "th",
   "thead", "tr"}

\* The special elements among those the rules are for.
SpecialNames == {"body", "br", "div", "p", "pre"} \cup HeadingNames

\* The tree under construction: the stack of open elements from the body
\* to the current node, each with the children it has so far; the list of
\* active formatting elements; the number of the next element; and whether
\* a line feed is to be skipped (after <pre>).
OpenElement(id, name, href) == [id |-> id, name |-> name, href |-> href, kids |-> <<>>]

NewTree ==
  [open |-> <<OpenElement(0, "body", <<>>)>>, fmt |-> <<>>, next |-> 1,
   skip |-> FALSE]

current_node(tree) == tree.open[Len(tree.open)]

in_scope(tree, names) == \E n \in 1..Len(tree.open) : tree.open[n].name \in names

is_open(tree, id) == \E n \in 1..Len(tree.open) : tree.open[n].id = id

\* The current node is popped: it is complete, and the last child of the
\* element below it.
pop(tree) ==
  LET n == Len(tree.open)
      top == tree.open[n]
      node == [kind |-> "elem", name |-> top.name, href |-> top.href,
               text |-> <<>>, kids |-> top.kids]
  IN IF n = 1 THEN tree
     ELSE [tree EXCEPT !.open = [SubSeq(tree.open, 1, n - 1) EXCEPT
                                   ![n - 1].kids = Append(@, node)]]

RECURSIVE pop_until(_, _)
\* Elements are popped until one with a name of names has been popped.
pop_until(tree, names) ==
  IF Len(tree.open) = 1 THEN tree
  ELSE IF current_node(tree).name \in names THEN pop(tree)
  ELSE pop_until(pop(tree), names)

RECURSIVE pop_to(_, _)
\* Elements are popped until n - 1 are open.
pop_to(tree, n) ==
  IF Len(tree.open) < n \/ Len(tree.open) = 1 THEN tree ELSE pop_to(pop(tree), n)

RECURSIVE generate_implied_end(_, _)
\* Of the elements with an implied end tag only p is among the names.
generate_implied_end(tree, except) ==
  IF Len(tree.open) > 1 /\ current_node(tree).name = "p" /\ "p" \notin except
  THEN generate_implied_end(pop(tree), except)
  ELSE tree

close_p_element(tree) == pop_until(generate_implied_end(tree, {"p"}), {"p"})

close_p_element_in_button_scope(tree) ==
  IF in_scope(tree, {"p"}) THEN close_p_element(tree) ELSE tree

insert_element(tree, name, href) ==
  [tree EXCEPT !.open = Append(@, OpenElement(tree.next, name, href)),
               !.next = @ + 1]

\* A text is added to the current node: to its last child if that is a
\* text, as a new text node otherwise.
append_text(tree, text) ==
  LET n == Len(tree.open)
      kids == tree.open[n].kids
  IN IF kids # <<>> /\ kids[Len(kids)].kind = "text"
     THEN [tree EXCEPT !.open[n].kids[Len(kids)].text = @ \o text]
     ELSE [tree EXCEPT !.open[n].kids = Append(@, T(text))]

append_comment(tree, text) ==
  [tree EXCEPT !.open[Len(tree.open)].kids = Append(@, Cm(text))]

RECURSIVE reopen(_, _)
\* The formatting elements from entry n on are created anew.
reopen(tree, n) ==
  IF n > Len(tree.fmt) THEN tree
  ELSE reopen([insert_element(tree, tree.fmt[n].name, tree.fmt[n].href)
                 EXCEPT !.fmt[n].id = tree.next], n + 1)

\* Reconstruct the active formatting elements: those after the last one
\* that is open.
reconstruct_formatting(tree) ==
  LET opened == { n \in 1..Len(tree.fmt) : is_open(tree, tree.fmt[n].id) }
      last == IF opened = {} THEN 0
              ELSE CHOOSE n \in opened : \A m \in opened : m <= n
  IN reopen(tree, last + 1)

remove_at(seq, k) == SubSeq(seq, 1, k - 1) \o SubSeq(seq, k + 1, Len(seq))

\* The current node is pushed onto the list of active formatting elements;
\* with three entries like it there already, the earliest is removed.
push_formatting(tree) ==
  LET top == current_node(tree)
      alike == { n \in 1..Len(tree.fmt) :
                   tree.fmt[n].name = top.name /\ tree.fmt[n].href = top.href }
      kept == IF Cardinality(alike) >= 3
              THEN remove_at(tree.fmt, CHOOSE n \in alike : \A m \in alike : n <= m)
              ELSE tree.fmt
  IN [tree EXCEPT !.fmt = Append(kept, [id |-> top.id, name |-> top.name,
                                        href |-> top.href])]

RECURSIVE any_other_end_tag_from(_, _, _)
any_other_end_tag_from(tree, name, n) ==
  IF n <= 1 THEN tree
  ELSE IF tree.open[n].name = name
       THEN pop_to(generate_implied_end(tree, {name}), n)
  ELSE IF tree.open[n].name \in SpecialNames THEN tree
  ELSE any_other_end_tag_from(tree, name, n - 1)

\* An end tag without a rule of its own: the nearest open element of that
\* name is closed, unless a special element is nearer.
any_other_end_tag(tree, name) == any_other_end_tag_from(tree, name, Len(tree.open))

\* One turn of the outer loop of the adoption agency algorithm that finds
\* a furthest block.  k is the entry of the formatting element in the list
\* of active formatting elements, f its place among the open elements and
\* b the place of the furthest block.  The formatting element, with what is
\* open between it and the furthest block, is closed as a child of the
\* common ancestor.  Of the elements between the two, those in the list
\* that the inner loop reaches in its first three turns are created anew,
\* one inside the other, and the others leave the stack (and the list).
\* The furthest block becomes the child of the innermost of them (or of the
\* common ancestor) and gives its children to a new element like the
\* formatting element, which becomes its only child and is open above it.
\* In the list the new element stands at the bookmark: after the entry of
\* the innermost element created anew, or where the formatting element was.
adopt(tree, k, f, b) ==
  LET stack == tree.open
      listed(n) == \E m \in 1..Len(tree.fmt) : tree.fmt[m].id = stack[n].id
      between == (f + 1)..(b - 1)
      cloned == { n \in between : b - n <= 3 /\ listed(n) }
      dropped == { n \in between : b - n > 3 /\ listed(n) }
      new_id(n) == tree.next + Cardinality({ c \in cloned : c < n })
      element == OpenElement(tree.next + Cardinality(cloned),
                             stack[f].name, stack[f].href)
      entry == [id |-> element.id, name |-> element.name, href |-> element.href]
      places == SelectSeq([i \in 1..(b - f - 1) |-> f + i],
                          LAMBDA n : n \in cloned)
      clones == [i \in 1..Len(places) |->
                   OpenElement(new_id(places[i]), stack[places[i]].name,
                               stack[places[i]].href)]
      closed == pop_to([tree EXCEPT !.open = SubSeq(stack, 1, b - 1)], f).open
      piece(m) ==
        LET e == tree.fmt[m]
            at == { n \in cloned : stack[n].id = e.id }
        IN IF m = k THEN IF cloned = {} THEN <<entry>> ELSE <<>>
           ELSE IF \E n \in dropped : stack[n].id = e.id THEN <<>>
           ELSE IF at = {} THEN <<e>>
           ELSE LET n == CHOOSE c \in at : TRUE
                IN <<[e EXCEPT !.id = new_id(n)]>>
                     \o (IF \A c \in cloned : c <= n THEN <<entry>> ELSE <<>>)
      list[m \in 0..Len(tree.fmt)] ==
        IF m = 0 THEN <<>> ELSE list[m - 1] \o piece(m)
  IN [tree EXCEPT
        !.open = closed \o clones
                   \o <<[stack[b] EXCEPT !.kids = <<>>],
                        [element EXCEPT !.kids = stack[b].kids]>>
                   \o SubSeq(stack, b + 1, Len(stack)),
        !.fmt = list[Len(tree.fmt)],
        !.next = @ + Cardinality(cloned) + 1]

\* The turns of the outer loop.
MaxAdoptions == 8

RECURSIVE adoption_agency_loop(_, _, _)
\* The outer loop of the adoption agency algorithm.  The formatting element
\* is the last entry of the list with the name.  Without one the end tag is
\* any other end tag; one that is not open leaves the list; one with no
\* special element open above it is popped, with all above it, and leaves
\* the list; otherwise the furthest block, the first special element above
\* it, is adopted and the loop goes on.
adoption_agency_loop(tree, name, turns) ==
  LET listed == { n \in 1..Len(tree.fmt) : tree.fmt[n].name = name }
  IN IF turns = 0 THEN tree
     ELSE IF listed = {} THEN any_other_end_tag(tree, name)
     ELSE LET k == CHOOSE n \in listed : \A m \in listed : m <= n
              at == { n \in 1..Len(tree.open) : tree.open[n].id = tree.fmt[k].id }
          IN IF at = {} THEN [tree EXCEPT !.fmt = remove_at(@, k)]
             ELSE LET f == CHOOSE n \in at : TRUE
                      blocks == { n \in (f + 1)..Len(tree.open) :
                                    tree.open[n].name \in SpecialNames }
                  IN IF blocks = {}
                     THEN [pop_to(tree, f) EXCEPT !.fmt = remove_at(@, k)]
                     ELSE LET b == CHOOSE n \in blocks : \A m \in blocks : n <= m
                              after == adopt(tree, k, f, b)
                          IN IF after.open = <<>> THEN after
                             ELSE adoption_agency_loop(after, name, turns - 1)

\* The adoption agency algorithm for the end tag of a formatting element.
\* A current node of that name that is not in the list is popped.
adoption_agency(tree, name) ==
  LET top == current_node(tree)
  IN IF /\ Len(tree.open) > 1 /\ top.name = name
        /\ \A n \in 1..Len(tree.fmt) : tree.fmt[n].id # top.id
     THEN pop(tree)
     ELSE adoption_agency_loop(tree, name, MaxAdoptions)

\* The start tag of an a element with an a element in the list of active
\* formatting elements: the adoption agency algorithm runs for "a", and the
\* element found leaves the list if it is still there.  (It is no longer
\* open then: the algorithm takes the formatting element it finds off the
\* stack, and this element is the one it finds first.)
handle_misnested_a_tags(tree) ==
  LET listed == { n \in 1..Len(tree.fmt) : tree.fmt[n].name = "a" }
  IN IF listed = {} THEN tree
     ELSE LET id == tree.fmt[CHOOSE n \in listed : \A m \in listed : m <= n].id
              after == adoption_agency(tree, "a")
          IN [after EXCEPT !.fmt = SelectSeq(@, LAMBDA e : e.id # id)]

\* A start tag in the body.
start_tag_in_body(tree, tag) ==
  IF tag.name \in {"p", "div"}
  THEN insert_element(close_p_element_in_button_scope(tree), tag.name, tag.href)
  ELSE IF tag.name \in HeadingNames
  THEN LET closed == close_p_element_in_button_scope(tree)
           popped == IF current_node(closed).name \in HeadingNames
                     THEN pop(closed) ELSE closed
       IN insert_element(popped, tag.name, tag.href)
  ELSE IF tag.name = "pre"
  THEN [insert_element(close_p_element_in_button_scope(tree), tag.name, tag.href)
          EXCEPT !.skip = TRUE]
  ELSE IF tag.name = "a"
  THEN push_formatting(
         insert_element(reconstruct_formatting(handle_misnested_a_tags(tree)),
                        tag.name, tag.href))
  ELSE IF tag.name \in FormattingNames
  THEN push_formatting(
         insert_element(reconstruct_formatting(tree), tag.name, tag.href))
  ELSE IF tag.name = "br"
  THEN pop(insert_element(reconstruct_formatting(tree), tag.name, tag.href))
  ELSE IF tag.name \in TableParts THEN tree
  ELSE insert_element(reconstruct_formatting(tree), tag.name, tag.href)

\* An end tag in the body.
end_tag_in_body(tree, tag) ==
  IF tag.name = "p"
  THEN close_p_element(IF in_scope(tree, {"p"}) THEN tree
                       ELSE insert_element(tree, "p", <<>>))
  ELSE IF tag.name \in {"div", "pre"}
  THEN IF in_scope(tree, {tag.name})
       THEN pop_until(generate_implied_end(tree, {}), {tag.name})
       ELSE tree
  ELSE IF tag.name \in HeadingNames
  THEN IF in_scope(tree, HeadingNames)
       THEN pop_until(generate_implied_end(tree, {}), HeadingNames)
       ELSE tree
  ELSE IF tag.name \in FormattingNames THEN adoption_agency(tree, tag.name)
  ELSE any_other_end_tag(tree, tag.name)

\* One token in the body.
token_in_body(tree, token) ==
  IF token.k = "text"
  THEN LET text == IF tree.skip /\ Head(token.text) = "\n"
                   THEN Tail(token.text) ELSE token.text
       IN IF text = <<>> THEN [tree EXCEPT !.skip = FALSE]
          ELSE append_text([reconstruct_formatting(tree) EXCEPT !.skip = FALSE],
                           text)
  ELSE IF token.k = "comment"
  THEN append_comment([tree EXCEPT !.skip = FALSE], token.text)
  ELSE IF token.k = "start"
  THEN start_tag_in_body([tree EXCEPT !.skip = FALSE], token)
  ELSE end_tag_in_body([tree EXCEPT !.skip = FALSE], token)

RECURSIVE in_body(_, _)
\* The tokens of the body, and the end of the text: every open element is
\* popped.
in_body(tree, tokens) ==
  IF tokens = <<>> THEN pop_to(tree, 2).open[1].kids
  ELSE LET after == token_in_body(tree, Head(tokens))
       IN IF after.open = <<>> THEN <<>> ELSE in_body(after, Tail(tokens))

RECURSIVE skip_parser_whitespace(_)
skip_parser_whitespace(text) ==
  IF text # <<>> /\ Head(text) \in ParserWhitespace
  THEN skip_parser_whitespace(Tail(text)) ELSE text

RECURSIVE before_head(_, _)
\* Before the head element: whitespace is ignored and a comment is a child
\* of the html element; the first token that is neither makes the head and
\* the body.
before_head(tokens, comments) ==
  IF tokens = <<>> THEN [comments |-> comments, rest |-> <<>>]
  ELSE LET token == Head(tokens)
       IN IF token.k = "comment"
          THEN before_head(Tail(tokens), Append(comments, Cm(token.text)))
          ELSE IF token.k = "text"
          THEN LET text == skip_parser_whitespace(token.text)
               IN IF text = <<>> THEN before_head(Tail(tokens), comments)
                  ELSE [comments |-> comments,
                        rest |-> <<TextToken(text)>> \o Tail(tokens)]
          ELSE [comments |-> comments, rest |-> tokens]

\* Document::from of "<html>" html "</html>": the nodes of the document;
\* doc.nth(0) is the html element.
Document_from(html) ==
  LET lead == before_head(Tags(html), <<>>)
  IN << E("html", lead.comments
                    \o <<E("head", <<>>),
                         E("body", in_body(NewTree, lead.rest))>>) >>

\* MarkdownWalker::start followed by get_content.
walk(html, use_bold_for_headers) ==
  LET doc == Document_from(html)
      buffer == IF doc # <<>> THEN visit(doc[1], use_bold_for_headers) ELSE <<>>
  IN Trim(buffer)

\* html_to_md: the default options write headers with "#".
html_to_md(html) == walk(html, FALSE)

\* html_to_md_minimal: headers in bold.
html_to_md_minimal(html) == walk(html, TRUE)

\* ------------------------------------------------------------ post pages
\* A fetched discussion page: whether it has an "unminimized-comment" node,
\* and the author node and the body node inside it (<<>> when the node is
\* absent, <<node>> when present).
NoCommentPage == [comment |-> FALSE, author |-> <<>>, content |-> <<>>]

AuthorNode == A(<<"/", "octocat">>, <<T(<<"\n", " ", "octocat", "\n">>)>>)

\* A body with inline markup that mentions another discussion.
MentionBody ==
  E("td", << E("p", << T(<<"Like", " ">>), E("b", <<T(<<BASE, "2">>)>>) >>),
             T(<<"\n">>) >>)

\* What the forum serves for the discussion id: a page without the comment
\* markup, or a page of the discussion.  Every discussion has a page with
\* neither author nor body; discussion 3 also has one, as after an edit,
\* with an author and a body that mentions another discussion.
Pages(id) ==
  { NoCommentPage, [comment |-> TRUE, author |-> <<>>, content |-> <<>>] }
    \cup (IF id = 3
          THEN {[comment |-> TRUE, author |-> <<AuthorNode>>,
                 content |-> <<MentionBody>>]}
          ELSE {})

\* A pull_from that also fails when the author or the body node is absent.
DiscussionPost_pull_fromStrict(link, page) ==
  IF ~page.comment \/ page.author = <<>> \/ page.content = <<>>
  THEN [ok |-> FALSE]
  ELSE [ok |-> TRUE, content |-> Trim(NodeText(page.content[1])),
        author |-> Trim(NodeText(page.author[1])), url |-> link]

\* DiscussionPost::pull_from: Err(PostNotFoundError) without the comment
\* node, sentinel texts without the author or the body node.
DiscussionPost_pull_from(link, page) ==
  IF ~page.comment THEN [ok |-> FALSE]
  ELSE LET author == IF page.author # <<>> THEN NodeText(page.author[1])
                     ELSE <<"Unknown Author">>
           content == IF page.content # <<>> THEN NodeText(page.content[1])
                      ELSE <<"Unable to find content for this post!!!">>
       IN [ok |-> TRUE, content |-> Trim(content), author |-> Trim(author),
           url |-> link]

\* The text forward_opportunities sends for a post.
ForwardedText(post) ==
  <<"## Forwarded message from ">> \o get_url(post.url)
    \o <<":\n**Author:** ">> \o post.author \o <<"\n\n">> \o post.content

\* The .filter of forward_opportunities that lets every listed id through
\* that is at least the watermark.
NewerOpportunitiesInclusive(discussion_links, last_posted_id) ==
  SelectSeq(discussion_links, LAMBDA link : get_id(link) >= last_posted_id)

\* The .filter of forward_opportunities.
NewerOpportunities(discussion_links, last_posted_id) ==
  SelectSeq(discussion_links, LAMBDA link : get_id(link) > last_posted_id)

\* A loop that goes on to the next post after a failed fetch or send.
RemainingAfterErrorSkipped(newer_opportunities) == Tail(newer_opportunities)

\* `?` in the loop of forward_opportunities: the error is returned and the
\* rest of the iterator is dropped.
RemainingAfterError(newer_opportunities) == <<>>

\* ------------------------------------------------------ history scanning
\* A channel history is a sequence of messages, oldest first; messages_iter
\* yields it from the last element down to the first.

RECURSIVE ScanAllHuman(_, _)
\* A scan that does not stop at the first own message.
ScanAllHuman(history, n) ==
  IF n = 0 THEN [found_own |-> FALSE, target_posts |-> <<>>]
  ELSE LET rest == ScanAllHuman(history, n - 1)
       IN IF history[n].own
          THEN [found_own |-> TRUE, target_posts |-> rest.target_posts]
          ELSE [found_own |-> rest.found_own,
                target_posts |-> <<history[n]>> \o rest.target_posts]

RECURSIVE ScanIllegalPosts(_, _)
\* The while loop of delete_illegal_posts, from message n down.
ScanIllegalPosts(history, n) ==
  IF n = 0 THEN [found_own |-> FALSE, target_posts |-> <<>>]
  ELSE IF history[n].own THEN [found_own |-> TRUE, target_posts |-> <<>>]
  ELSE LET rest == ScanIllegalPosts(history, n - 1)
       IN [found_own |-> rest.found_own,
           target_posts |-> <<history[n]>> \o rest.target_posts]

\* The `if found_own` of delete_illegal_posts, left out.
ShouldBlockAlways(found_own, target_posts) == target_posts # <<>>

\* delete_illegal_posts blocks the collected posts only if found_own.
ShouldBlock(found_own, target_posts) == found_own /\ target_posts # <<>>

RECURSIVE LastPostedScanGreatest(_, _)
\* A scan that takes the greatest id of the message it stops at.
LastPostedScanGreatest(history, n) ==
  IF n = 0 THEN [panic |-> FALSE, id |-> 0]
  ELSE IF ~history[n].own THEN LastPostedScanGreatest(history, n - 1)
  ELSE IF pull_from_panics(history[n].text) THEN [panic |-> TRUE, id |-> 0]
  ELSE IF pull_from(history[n].text) # <<>>
       THEN LET links == pull_from(history[n].text)
            IN [panic |-> FALSE, id |-> Max(get_id(links[Len(links)]), 0)]
  ELSE LastPostedScanGreatest(history, n - 1)

RECURSIVE LastPostedScanFirstOwn(_, _)
\* A scan that stops at the first own message, with or without a link.
LastPostedScanFirstOwn(history, n) ==
  IF n = 0 THEN [panic |-> FALSE, id |-> 0]
  ELSE IF ~history[n].own THEN LastPostedScanFirstOwn(history, n - 1)
  ELSE IF pull_from_panics(history[n].text) THEN [panic |-> TRUE, id |-> 0]
  ELSE IF pull_from(history[n].text) # <<>>
       THEN [panic |-> FALSE, id |-> Max(get_id(pull_from(history[n].text)[1]), 0)]
  ELSE [panic |-> FALSE, id |-> 0]

RECURSIVE LastPostedScan(_, _)
\* The while loop of get_last_posted_opportunity_id, from message n down:
\* the first own message with a link ends the scan; panic tells that
\* pull_from panicked on a message the scan read.
LastPostedScan(history, n) ==
  IF n = 0 THEN [panic |-> FALSE, id |-> 0]
  ELSE IF ~history[n].own THEN LastPostedScan(history, n - 1)
  ELSE IF pull_from_panics(history[n].text) THEN [panic |-> TRUE, id |-> 0]
  ELSE IF pull_from(history[n].text) # <<>>
       THEN [panic |-> FALSE, id |-> Max(get_id(pull_from(history[n].text)[1]), 0)]
  ELSE LastPostedScan(history, n - 1)

\* A block_illegal_post that notifies the author whether or not the
\* deletion succeeded.
BlockOutcomeAlwaysNotify(delOk, dmOk) ==
  [deleted |-> delOk, dm |-> dmOk, ret |-> IF delOk /\ dmOk THEN "ok" ELSE "err"]

\* block_illegal_post: what it does given the platform's answers to
\* msg.delete and msg.author.dm.
BlockOutcome(delOk, dmOk) ==
  [deleted |-> delOk, dm |-> delOk /\ dmOk,
   ret |-> IF delOk /\ dmOk THEN "ok" ELSE "err"]

\* Handler::is_target_channel
is_target_channel(channel_name) == channel_name = <<"opportunities">>

\* A hook that does not look at who wrote the message.
HookBranchAnyAuthor(name, own, private) ==
  IF is_target_channel(name) THEN "block"
  ELSE IF private THEN "react"
  ELSE "ignore"

\* EventHandler::message: the branch it takes, from the name of the
\* message's channel, msg.is_own and msg.is_private.
HookBranch(name, own, private) ==
  IF own THEN "return"
  ELSE IF is_target_channel(name) THEN "block"
  ELSE IF private THEN "react"
  ELSE "ignore"

\* EventHandler::message on one message: what it did, given the platform's
\* answers to msg.delete and msg.author.dm.
message_outcome(name, own, private, delOk, dmOk) ==
  LET branch == HookBranch(name, own, private)
      out == BlockOutcome(delOk, dmOk)
  IN [branch |-> branch,
      deleted |-> branch = "block" /\ out.deleted,
      dm |-> branch = "block" /\ out.dm,
      reacted |-> branch = "react"]

\* The text block_illegal_post sends to the author (DELETED_MESSAGE_WARNING).
reply_text(msg) ==
  <<"I've deleted your message from the opportunities channel. It said: \n\n">>
    \o msg.text \o <<"\n\nPlease post opportunities here: ">>
    \o OPPORTUNITIES_POST_TO_URL

\* ------------------------------------------------------------------ state
VARIABLES
  channel,              \* history of every target channel, oldest first
  nextMid,              \* id the platform gives the next message
  listing,              \* text of the forum's listing page
  pc,                   \* per run of ready: where it is
  channels,             \* per run of ready: the channels still to handle
  target_posts,         \* per run: delete_illegal_posts' posts not yet blocked
  last_posted_id,       \* per run: forward_opportunities' watermark
  newer_opportunities,  \* per run: links not yet forwarded
  post,                 \* per run: the post fetched and not yet sent
  humans,               \* number of human posts so far
  passes,               \* one record per call of handle_channel
  sends,                \* channel.send_message calls that succeeded
  blocks,               \* block_illegal_post calls
  hooks,                \* runs of message that have not returned
  call,                 \* a single call of one function: its name and inputs
  returned              \* what that call returned, <<>> before it returns

vars == <<channel, nextMid, listing, pc, channels, target_posts, last_posted_id,
          newer_opportunities, post, humans, passes, sends, blocks, hooks, call,
          returned>>

\* The variables of a single call, which the bot's passes leave alone.
pure == <<call, returned>>

NoCall == [fn |-> "none"]

\* The channels of the guild the bot is in: what guild_id.channels gives, a
\* map from channel ids, which has no order of its own.
Guild ==
  { [id |-> 1, name |-> <<"opportunities">>],
    [id |-> 2, name |-> <<"general">>],
    [id |-> 3, name |-> <<"opportunities">>] }

\* The name msg.channel_id.name and channel_id.name give for a channel.
channel_name(id) == (CHOOSE c \in Guild : c.id = id).name

\* The channels get_target_channels keeps.
TargetIds == { c.id : c \in { x \in Guild : is_target_channel(x.name) } }

\* What get_target_channels may return for a guild: the channels it keeps,
\* in any order, since the loop that collects them iterates over the map.
TargetChannels(guild) ==
  LET ids == { c.id : c \in { x \in guild : is_target_channel(x.name) } }
  IN { order \in [1..Cardinality(ids) -> ids] :
         \A n, m \in 1..Cardinality(ids) : n # m => order[n] # order[m] }

\* The target channel that may hold messages when the bot starts.
FirstChannel == CHOOSE c \in TargetIds : \A x \in TargetIds : c <= x

RECURSIVE RenderListing(_)
\* A listing page that shows the given discussions, in the given order.  The
\* page links each discussion twice: from its title and from its comment
\* count.
RenderListing(ds) ==
  IF ds = <<>> THEN <<"</html>">>
  ELSE <<"<a href=\"", BASE, Head(ds), "\">", "<a href=\"", BASE, Head(ds),
         "#comments\">">> \o RenderListing(Tail(ds))

\* The listing pages: one that shows no discussion, one that shows one,
\* one that shows three, the newest first as the forum does, and one that
\* links a discussion whose number is above 65535.
Listings ==
  { RenderListing(<<>>), RenderListing(<<"3">>), RenderListing(<<"5", "3", "0">>),
    <<"<a href=\"", BASE, "7", "0", "0", "0", "0", "\">", "</html>">> }

\* One target channel when the bot starts: empty, or with a message of the
\* bot's account that carries no link, above a message of a human, or with
\* a message of the bot's account that links a discussion whose number is
\* above 65535.  The other target channels are empty.
OlderMessage == [mid |-> 1, own |-> FALSE, text |-> <<"older-spam">>]

AnchorMessage == [mid |-> 2, own |-> TRUE, text |-> <<"anchor">>]

OverflowMessage ==
  [mid |-> 1, own |-> TRUE, text |-> <<BASE, "7", "0", "0", "0", "0">>]

InitHistories == { <<>>, <<OlderMessage, AnchorMessage>>, <<OverflowMessage>> }

\* A call of handle_channel for a channel by a run of ready; ended holds
\* the calls that had returned when this one read the channel first, and
\* seen the number of sends when it read the history for the watermark.
NewPass(chan, task) ==
  [chan |-> chan, task |-> task,
   ended |-> { p \in 1..Len(passes) : passes[p].result # "running" },
   history |-> <<>>, scanned |-> FALSE, moderated |-> FALSE, wm |-> <<>>,
   seen |-> 0, listed |-> <<>>, result |-> "running", stage |-> "",
   failedAt |-> <<>>]

\* The discussions a listing page links.
Listed(page) ==
  Cardinality({ Captures(page, 1)[n].digits : n \in 1..Len(Captures(page, 1)) })

Init ==
  /\ \E h \in InitHistories :
       /\ channel = [c \in TargetIds |-> IF c = FirstChannel THEN h ELSE <<>>]
       /\ listing \in { l \in Listings : Len(h) + Listed(l) <= MaxStart }
  /\ nextMid = Len(channel[FirstChannel]) + 1
  /\ pc = <<>>
  /\ channels = <<>>
  /\ target_posts = <<>>
  /\ last_posted_id = <<>>
  /\ newer_opportunities = <<>>
  /\ post = <<>>
  /\ humans = 0
  /\ passes = <<>>
  /\ sends = <<>>
  /\ blocks = {}
  /\ hooks = {}
  /\ call = NoCall
  /\ returned = <<>>

\* The runs of ready so far.
Tasks == 1..Len(pc)

\* The call of handle_channel a run of ready is in: its latest.
cur(t) ==
  LET mine == { p \in 1..Len(passes) : passes[p].task = t }
  IN CHOOSE p \in mine : \A q \in mine : q <= p

InChannel(mid) ==
  \E c \in TargetIds : \E n \in 1..Len(channel[c]) : channel[c][n].mid = mid

Remove(history, mid) == SelectSeq(history, LAMBDA m : m.mid # mid)

\* A call of handle_channel returns to the loop of ready, lines 218-224,
\* with the passes P: the loop goes on to the next channel, or ready
\* returns.
Return(t, left, P) ==
  /\ pc' = [pc EXCEPT ![t] = IF left = <<>> THEN "done" ELSE "next"]
  /\ channels' = [channels EXCEPT ![t] = left]
  /\ passes' = P
  /\ target_posts' = [target_posts EXCEPT ![t] = <<>>]
  /\ last_posted_id' = [last_posted_id EXCEPT ![t] = 0]
  /\ newer_opportunities' = [newer_opportunities EXCEPT ![t] = <<>>]
  /\ post' = [post EXCEPT ![t] = <<>>]

\* handle_channel returns: Err(why) of the stage that failed, or Ok(()).
EndPass(t, result, stage, failed) ==
  Return(t, channels[t],
         [passes EXCEPT ![cur(t)].result = result, ![cur(t)].stage = stage,
                        ![cur(t)].failedAt = failed])

\* A panic inside handle_channel unwinds the run of ready: nothing catches
\* it, so the run ends there and the channels left are never handled.
Panicked(t) ==
  /\ pc' = [pc EXCEPT ![t] = "panicked"]
  /\ passes' = [passes EXCEPT ![cur(t)].result = "panicked",
                              ![cur(t)].stage = "panic"]
  /\ target_posts' = [target_posts EXCEPT ![t] = <<>>]
  /\ last_posted_id' = [last_posted_id EXCEPT ![t] = 0]
  /\ newer_opportunities' = [newer_opportunities EXCEPT ![t] = <<>>]
  /\ post' = [post EXCEPT ![t] = <<>>]
  /\ UNCHANGED channels

\* A handle_channel that goes on to forward_opportunities whatever
\* delete_illegal_posts returned.
after_delete_illegal_postsAlwaysForward(res) == "watermark"

\* handle_channel, lines 163-167: where it goes when delete_illegal_posts
\* has returned res: it returns the error, or calls forward_opportunities.
after_delete_illegal_posts(res) == IF res = "err" THEN "return" ELSE "watermark"

\* delete_illegal_posts returns an error to the call p of handle_channel,
\* with the passes P and the channels left.
ModerationFailed(t, p, left, P) ==
  LET failed == [P EXCEPT ![p].result = "err", ![p].stage = "moderation"]
  IN IF after_delete_illegal_posts("err") = "return"
     THEN Return(t, left, failed)
     ELSE /\ pc' = [pc EXCEPT ![t] = after_delete_illegal_posts("err")]
          /\ passes' = failed
          /\ channels' = [channels EXCEPT ![t] = left]
          /\ target_posts' = [target_posts EXCEPT ![t] = <<>>]
          /\ UNCHANGED <<last_posted_id, newer_opportunities, post>>

\* `?` on the fetch of a post or on its send, lines 147 and 156, in the run
\* t: forward_opportunities returns the error and the links left are
\* dropped.
ForwardingFailed(t) ==
  LET link == Head(newer_opportunities[t])
  IN IF RemainingAfterError(newer_opportunities[t]) = <<>>
     THEN EndPass(t, "err", "post", <<get_id(link)>>)
     ELSE /\ newer_opportunities' =
               [newer_opportunities EXCEPT ![t] = RemainingAfterError(@)]
          /\ post' = [post EXCEPT ![t] = <<>>]
          /\ pc' = [pc EXCEPT ![t] = "forward"]
          /\ passes' = [passes EXCEPT ![cur(t)].stage = "post",
                                      ![cur(t)].failedAt = <<get_id(link)>>]
          /\ UNCHANGED <<channels, target_posts, last_posted_id>>

\* The platform's answers to msg.delete: it fails for a message that is no
\* longer in the channel, and may fail for any other.
DeleteAnswers(msg) == IF InChannel(msg.mid) THEN BOOLEAN ELSE {FALSE}

\* The platform's answers to msg.author.dm.
DmAnswers == BOOLEAN

\* What reqwest::get of a post's url gives: a network failure or a page.
FetchResults(link) ==
  {[ok |-> FALSE, page |-> NoCommentPage]}
    \cup {[ok |-> TRUE, page |-> p] : p \in Pages(get_id(link))}

\* block_illegal_post, lines 25-30, on msg: msg.delete is awaited.  When it
\* fails the call returns, whatever msg.author.dm would answer; when it
\* succeeds the call goes on to the direct message, which is another step.
BlockDelete(msg, delOk, by, pass) ==
  LET out == IF delOk THEN [deleted |-> TRUE, dm |-> FALSE, ret |-> "pending"]
             ELSE BlockOutcome(FALSE, TRUE)
  IN /\ channel' = IF out.deleted
                   THEN [c \in TargetIds |-> Remove(channel[c], msg.mid)]
                   ELSE channel
     /\ blocks' = blocks \cup
          {[mid |-> msg.mid, own |-> msg.own, by |-> by, pass |-> pass,
            deleted |-> out.deleted, dm |-> out.dm, ret |-> out.ret,
            text |-> IF out.dm THEN reply_text(msg) ELSE <<>>]}

\* block_illegal_post, lines 32-41, on msg: msg.author.dm is awaited and
\* the call returns.
BlockNotify(msg, dmOk, by, pass) ==
  LET out == BlockOutcome(TRUE, dmOk)
      b == CHOOSE x \in blocks : /\ x.mid = msg.mid /\ x.by = by
                                 /\ x.pass = pass /\ x.ret = "pending"
  IN blocks' = (blocks \ {b}) \cup
       {[b EXCEPT !.dm = out.dm, !.ret = out.ret,
                  !.text = IF out.dm THEN reply_text(msg) ELSE <<>>]}

\* ----------------------------------------------------------------- actions
\* EventHandler::ready is called: the platform runs every call as a task
\* of its own, whatever the calls before it are doing.
ready ==
  /\ Len(pc) + humans < MaxEvents
  /\ Len(passes) + humans < MaxEvents
  /\ Cardinality({ t \in Tasks : pc[t] \notin {"done", "panicked"} }) < MaxOverlap
  /\ pc' = Append(pc, "channels")
  /\ channels' = Append(channels, <<>>)
  /\ target_posts' = Append(target_posts, <<>>)
  /\ last_posted_id' = Append(last_posted_id, 0)
  /\ newer_opportunities' = Append(newer_opportunities, <<>>)
  /\ post' = Append(post, <<>>)
  /\ UNCHANGED pure
  /\ UNCHANGED <<channel, nextMid, listing, humans, passes, sends, blocks, hooks>>

\* get_target_channels returns to ready: with an error ready returns, with
\* the target channels its loop starts.
get_target_channels ==
  \E t \in Tasks :
    /\ pc[t] = "channels"
    /\ \E callsOk \in BOOLEAN :
       \E result \in IF callsOk THEN TargetChannels(Guild) ELSE {<<>>} :
         Return(t, result, passes)
    /\ UNCHANGED pure
    /\ UNCHANGED <<channel, nextMid, listing, humans, sends, blocks, hooks>>

\* handle_channel is called for the next channel, and delete_illegal_posts,
\* lines 81-97 and the test of found_own: the history is read and the posts
\* to block are collected.
delete_illegal_posts_scan ==
  \E t \in Tasks :
    /\ pc[t] = "next"
    /\ Len(passes) + humans < MaxEvents
    /\ \E readOk \in BOOLEAN :
         LET chan == Head(channels[t])
             p == Len(passes) + 1
             P == Append(passes, NewPass(chan, t))
             history == channel[chan]
             s == ScanIllegalPosts(history, Len(history))
             go == ShouldBlock(s.found_own, s.target_posts)
         IN IF ~readOk
            THEN ModerationFailed(t, p, Tail(channels[t]), P)
            ELSE /\ target_posts' = [target_posts EXCEPT ![t] =
                                      IF go THEN s.target_posts ELSE <<>>]
                 /\ pc' = [pc EXCEPT ![t] = IF go THEN "block"
                                           ELSE after_delete_illegal_posts("ok")]
                 /\ passes' = [P EXCEPT ![p].history = history,
                                        ![p].scanned = TRUE,
                                        ![p].moderated = ~go]
                 /\ channels' = [channels EXCEPT ![t] = Tail(@)]
                 /\ UNCHANGED <<last_posted_id, newer_opportunities, post>>
    /\ UNCHANGED pure
    /\ UNCHANGED <<channel, nextMid, listing, humans, sends, blocks, hooks>>

\* delete_illegal_posts, lines 99-103: block_illegal_post is called for the
\* next of target_posts and awaits msg.delete.
delete_illegal_posts_block ==
  \E t \in Tasks :
    /\ pc[t] = "block"
    /\ \E delOk \in DeleteAnswers(Head(target_posts[t])) :
         /\ BlockDelete(Head(target_posts[t]), delOk, "pass", cur(t))
         /\ IF delOk
            THEN /\ pc' = [pc EXCEPT ![t] = "notify"]
                 /\ UNCHANGED <<channels, target_posts, last_posted_id,
                                newer_opportunities, post, passes>>
            ELSE ModerationFailed(t, cur(t), channels[t], passes)
    /\ UNCHANGED pure
    /\ UNCHANGED <<nextMid, listing, humans, sends, hooks>>

\* delete_illegal_posts, lines 99-103: block_illegal_post awaits
\* msg.author.dm and returns; the loop goes on or ends.
delete_illegal_posts_notify ==
  \E t \in Tasks :
    /\ pc[t] = "notify"
    /\ \E dmOk \in DmAnswers :
         /\ BlockNotify(Head(target_posts[t]), dmOk, "pass", cur(t))
         /\ IF BlockOutcome(TRUE, dmOk).ret = "err"
            THEN ModerationFailed(t, cur(t), channels[t], passes)
            ELSE /\ target_posts' = [target_posts EXCEPT ![t] = Tail(@)]
                 /\ pc' = [pc EXCEPT ![t] =
                             IF Tail(target_posts[t]) = <<>>
                             THEN after_delete_illegal_posts("ok") ELSE "block"]
                 /\ passes' = [passes EXCEPT ![cur(t)].moderated =
                                               Tail(target_posts[t]) = <<>>]
                 /\ UNCHANGED <<channels, last_posted_id, newer_opportunities, post>>
    /\ UNCHANGED pure
    /\ UNCHANGED <<channel, nextMid, listing, humans, sends, hooks>>

\* get_last_posted_opportunity_id, called first by forward_opportunities.
get_last_posted_opportunity_id ==
  \E t \in Tasks :
    /\ pc[t] = "watermark"
    /\ \E readOk \in BOOLEAN :
         LET history == channel[passes[cur(t)].chan]
             s == LastPostedScan(history, Len(history))
         IN IF ~readOk THEN EndPass(t, "err", "watermark", <<>>)
            ELSE IF s.panic THEN Panicked(t)
            ELSE /\ last_posted_id' = [last_posted_id EXCEPT ![t] = s.id]
                 /\ pc' = [pc EXCEPT ![t] = "fetch"]
                 /\ passes' = [passes EXCEPT ![cur(t)].wm = <<s.id>>,
                                             ![cur(t)].seen = Len(sends)]
                 /\ UNCHANGED <<channels, target_posts, newer_opportunities, post>>
    /\ UNCHANGED pure
    /\ UNCHANGED <<channel, nextMid, listing, humans, sends, blocks, hooks>>

\* DiscussionLink::fetch and the filter of forward_opportunities.
DiscussionLink_fetch ==
  \E t \in Tasks :
    /\ pc[t] = "fetch"
    /\ \E fetchOk \in BOOLEAN :
         IF ~fetchOk THEN EndPass(t, "err", "listing", <<>>)
         ELSE IF pull_from_panics(listing) THEN Panicked(t)
         ELSE LET discussion_links == pull_from(listing)
                  newer == NewerOpportunities(discussion_links, last_posted_id[t])
                  ids == [n \in 1..Len(discussion_links) |-> discussion_links[n].id]
                  P == [passes EXCEPT ![cur(t)].listed = <<ids>>]
              IN IF newer = <<>>
                 THEN Return(t, channels[t], [P EXCEPT ![cur(t)].result = "ok"])
                 ELSE /\ newer_opportunities' =
                           [newer_opportunities EXCEPT ![t] = newer]
                      /\ pc' = [pc EXCEPT ![t] = "forward"]
                      /\ passes' = P
                      /\ UNCHANGED <<channels, target_posts, last_posted_id,
                                     post>>
    /\ UNCHANGED pure
    /\ UNCHANGED <<channel, nextMid, listing, humans, sends, blocks, hooks>>

\* forward_opportunities, line 147: the loop awaits the fetch of the post of
\* the next link.  A failure returns the error; otherwise the post is held
\* until it is sent.
DiscussionPost_fetch_from ==
  \E t \in Tasks :
    /\ pc[t] = "forward"
    /\ \E fetched \in FetchResults(Head(newer_opportunities[t])) :
         LET link == Head(newer_opportunities[t])
             built == DiscussionPost_pull_from(link, fetched.page)
         IN IF fetched.ok /\ built.ok
            THEN /\ post' = [post EXCEPT ![t] =
                               <<[post |-> built, page |-> fetched.page]>>]
                 /\ pc' = [pc EXCEPT ![t] = "send"]
                 /\ UNCHANGED <<channels, passes, target_posts, last_posted_id,
                                newer_opportunities>>
            ELSE ForwardingFailed(t)
    /\ UNCHANGED pure
    /\ UNCHANGED <<channel, nextMid, listing, humans, sends, blocks, hooks>>

\* forward_opportunities, lines 148-156: the post that was fetched is sent
\* to the channel, and the loop goes on to the next link or ends.
send_message ==
  \E t \in Tasks :
    /\ pc[t] = "send"
    /\ \E sendOk \in BOOLEAN :
         LET p == cur(t)
             chan == passes[p].chan
             link == Head(newer_opportunities[t])
         IN IF sendOk
            THEN /\ channel' = [channel EXCEPT ![chan] =
                                  Append(@, [mid |-> nextMid, own |-> TRUE,
                                             text |-> ForwardedText(post[t][1].post)])]
                 /\ nextMid' = nextMid + 1
                 /\ sends' = Append(sends, [pass |-> p, id |-> get_id(link),
                                            mid |-> nextMid, link |-> link,
                                            page |-> post[t][1].page])
                 /\ IF Tail(newer_opportunities[t]) = <<>>
                    THEN EndPass(t, IF passes[p].failedAt = <<>> THEN "ok"
                                    ELSE "err",
                                 passes[p].stage, passes[p].failedAt)
                    ELSE /\ newer_opportunities' =
                              [newer_opportunities EXCEPT ![t] = Tail(@)]
                         /\ post' = [post EXCEPT ![t] = <<>>]
                         /\ pc' = [pc EXCEPT ![t] = "forward"]
                         /\ UNCHANGED <<channels, passes, target_posts,
                                        last_posted_id>>
            ELSE /\ ForwardingFailed(t)
                 /\ UNCHANGED <<channel, nextMid, sends>>
    /\ UNCHANGED pure
    /\ UNCHANGED <<listing, humans, blocks, hooks>>

\* Someone other than the bot posts to a target channel; the platform
\* calls EventHandler::message for the post.
HumanPost ==
  \E c \in TargetIds :
    LET msg == [mid |-> nextMid, own |-> FALSE, text |-> <<"spam">>]
    IN /\ Len(pc) + humans < MaxEvents
       /\ Len(passes) + humans < MaxEvents
       /\ humans' = humans + 1
       /\ channel' = [channel EXCEPT ![c] = Append(@, msg)]
       /\ nextMid' = nextMid + 1
       /\ hooks' = hooks \cup {[msg |-> msg, chan |-> c, pc |-> "start"]}
       /\ UNCHANGED pure
       /\ UNCHANGED <<listing, pc, channels, target_posts, last_posted_id,
                      newer_opportunities, post, passes, sends, blocks>>

\* EventHandler::message for a post of someone else, up to the answer to
\* msg.delete of block_illegal_post.  (For a message of the bot it returns
\* at once.)
message ==
  \E h \in hooks :
    /\ h.pc = "start"
    /\ IF HookBranch(channel_name(h.chan), h.msg.own, FALSE) # "block"
       THEN /\ hooks' = hooks \ {h}
            /\ UNCHANGED <<channel, blocks>>
       ELSE \E delOk \in DeleteAnswers(h.msg) :
              /\ BlockDelete(h.msg, delOk, "hook", 0)
              /\ hooks' = (hooks \ {h})
                            \cup (IF delOk THEN {[h EXCEPT !.pc = "notify"]}
                                  ELSE {})
    /\ UNCHANGED pure
    /\ UNCHANGED <<nextMid, listing, pc, channels, target_posts, last_posted_id,
                   newer_opportunities, post, humans, passes, sends>>

\* EventHandler::message, from the answer to msg.author.dm of
\* block_illegal_post to its return.
message_notify ==
  \E h \in hooks :
    /\ h.pc = "notify"
    /\ \E dmOk \in DmAnswers : BlockNotify(h.msg, dmOk, "hook", 0)
    /\ hooks' = hooks \ {h}
    /\ UNCHANGED pure
    /\ UNCHANGED <<channel, nextMid, listing, pc, channels, target_posts,
                   last_posted_id, newer_opportunities, post, humans, passes, sends>>

Next ==
  \/ ready
  \/ get_target_channels
  \/ delete_illegal_posts_scan
  \/ delete_illegal_posts_block
  \/ delete_illegal_posts_notify
  \/ get_last_posted_opportunity_id
  \/ DiscussionLink_fetch
  \/ DiscussionPost_fetch_from
  \/ send_message
  \/ HumanPost
  \/ message
  \/ message_notify

Spec == Init /\ [][Next]_vars

\* ------------------------------------------------------------ single calls
\* A second specification: one call of one function on inputs drawn from
\* bounded sets.  The bot's own variables stay as they are before ready.
bot == <<channel, nextMid, listing, pc, channels, target_posts, last_posted_id,
         newer_opportunities, post, humans, passes, sends, blocks, hooks>>

SeqsUpTo(S, n) == UNION { [1..k -> S] : k \in 0..n }

\* The longest channel history a call of get_last_posted_opportunity_id reads.
MaxHistory == 3

\* What a message of such a history is: written by the bot or not, with
\* no link, one link or several, the link to discussion 0 among them.
MessageKinds ==
  { [own |-> FALSE, text |-> <<"spam">>],
    [own |-> FALSE, text |-> <<"see", " ", BASE, "1">>],
    [own |-> TRUE, text |-> <<"anchor">>],
    [own |-> TRUE, text |-> <<BASE, "7">>],
    [own |-> TRUE, text |-> <<BASE, "4", " ", "Like", " ", BASE, "0">>],
    [own |-> TRUE,
     text |-> <<BASE, "5", " ", BASE, "9", " ", BASE, "3", " ", BASE, "5">>] }

Histories ==
  { [n \in 1..Len(ks) |-> [mid |-> n, own |-> ks[n].own, text |-> ks[n].text]] :
      ks \in SeqsUpTo(MessageKinds, MaxHistory) }

\* The longest text a call of DiscussionLink::pull_from reads, in tokens.
MaxText == 6

\* The tokens of such a text: the literal of the pattern, a slash, a
\* character that is neither, and two digits.
TextTokens == {BASE, "/", "x", "3", "9"}

\* Three decimal digits outside ASCII: ARABIC-INDIC DIGIT THREE, FULLWIDTH
\* DIGIT THREE and NAG MUNDARI DIGIT ONE.
OtherDigitTokens == {"(U+0663)", "(U+FF13)", "(U+1E4F1)"}

\* The texts: all over TextTokens, and the shorter ones that also have a
\* digit outside ASCII.
Texts ==
  SeqsUpTo(TextTokens, MaxText)
    \cup SeqsUpTo(TextTokens \cup OtherDigitTokens, MaxText - 2)

\* A body without markup.
PlainBody == E("td", <<T(<<"\n", "Hello", " ", "world", "\n">>)>>)

\* A body whose text begins and ends with whitespace other than a space, a
\* tab or a line feed.
CrLfBody ==
  E("td", <<T(<<"\r", "\n", "(U+00A0)", "Hi", "\f", "there", "(U+3000)",
                "(U+000B)", "\r", "\n">>)>>)

\* The pages a call of DiscussionPost::pull_from reads: without the comment
\* node, or with it and with or without the author and the body node.
PostPages ==
  { NoCommentPage }
  \cup { [comment |-> TRUE, author |-> a, content |-> c] :
           a \in { <<>>, <<AuthorNode>> },
           c \in { <<>>, <<PlainBody>>, <<CrLfBody>>, <<MentionBody>> } }

PostLinks ==
  { DiscussionLink_new(<<BASE, "3">>, 3), DiscussionLink_new(<<BASE, "/", "5">>, 5) }

\* The longest raw text a call of get_url reads, in tokens.
MaxRaw == 2

\* The tokens of such a text: the prefixes get_url looks for, pieces of
\* them, and other characters.
RawTokens == {"http", "ht", "tp", "github", "git", "hub", "www.", "ww", "/", "x"}

RawTexts == SeqsUpTo(RawTokens, MaxRaw)

\* <div><h1>This is a test</h1><p>Of <i>a</i> thing.</p></div>
HeadingFragment ==
  << E("div", << E("h1", <<T(<<"This is a test">>)>>),
                 E("p", << T(<<"Of", " ">>), E("i", <<T(<<"a">>)>>),
                           T(<<" ", "thing.">>) >>) >>) >>

\* The same html written as in test_simple_html2md, with a line break
\* after every block tag and spaces at the end.
HeadingFragmentOfTest ==
  << E("div", << T(<<"\n">>),
                 E("h1", <<T(<<"This is a test">>)>>),
                 T(<<"\n">>),
                 E("p", << T(<<"Of", " ">>), E("i", <<T(<<"a">>)>>),
                           T(<<" ", "thing.">>) >>),
                 T(<<"\n">>) >>),
     T(<<"\n", " ", " ">>) >>

\* <code>, a carriage return in one text node and a line feed in the next,
\* </code>: one line break in the text.
SplitCrLfFragment == << E("code", <<T(<<"\r">>), T(<<"\n">>)>>) >>

\* <div><a href="/u"><pre><a>t</a><p>x</p></pre></a>t</div>: an a element
\* in a block in an a element.
MisnestedAnchorFragment ==
  << E("div", << A(<<"/", "u">>,
                   << E("pre", << E("a", <<T(<<"t">>)>>),
                                  E("p", <<T(<<"x">>)>>) >>) >>),
                 T(<<"t">>) >>) >>

\* The depth of the trees a call of html_to_md reads: the number of
\* elements on a path from the top to a leaf.
MaxDepth == 2

\* The leaves of a tree: a text, a text of whitespace, a comment.
Leaves == { T(<<"t">>), T(<<" ">>), Cm(<<"c">>) }

\* The names of the elements: those visit has a rule for, and two it has
\* none for.
ElementNames ==
  { "p", "div", "tr", "br", "a", "i", "emph", "b", "strong", "code", "pre",
    "h1", "h2", "h3", "quote", "span", "td" }

\* What follows a text among the children of an element: a leaf or an
\* element.
Siblings == Leaves \cup { E("i", <<T(<<"t">>)>>) }

\* The children of an element over the trees sub: none, one tree of sub,
\* or a text and a sibling.
KidsOver(sub) ==
  { <<>> } \cup { <<t>> : t \in sub }
    \cup { <<T(<<"x", " ">>), t>> : t \in Siblings }

\* The names of the elements below the top one: a block, an inline
\* element, a header and an element without a rule.
InnerNames == { "p", "i", "h2", "span" }

\* The elements with a name of names and children of kids.  A br element
\* has no children, and an a element has a href attribute or none.
Elements(names, kids) ==
  { E(n, k) : n \in names \ {"br"}, k \in kids }
  \cup (IF "a" \in names THEN { A(<<"/", "u">>, k) : k \in kids } ELSE {})
  \cup (IF "br" \in names THEN { E("br", <<>>) } ELSE {})

RECURSIVE InnerTrees(_)
\* The trees of depth at most d below the top element.
InnerTrees(d) ==
  IF d = 0 THEN Leaves
  ELSE Leaves \cup Elements(InnerNames, KidsOver(InnerTrees(d - 1)))

\* The trees of depth at most d, for d > 0: a leaf, or a top element of
\* any name over trees of depth at most d - 1.
Trees(d) == Leaves \cup Elements(ElementNames, KidsOver(InnerTrees(d - 1)))

\* The htmls a call of html_to_md or html_to_md_minimal reads.
Fragments ==
  { <<t>> : t \in Trees(MaxDepth) } \cup
  { <<>>,
    HeadingFragment,
    HeadingFragmentOfTest,
    <<MentionBody>>,
    <<PlainBody>>,
    <<CrLfBody>>,
    SplitCrLfFragment,
    MisnestedAnchorFragment,
    << E("h2", <<T(<<"Title">>)>>), Cm(<<"hidden">>), E("br", <<>>),
       E("strong", <<T(<<"bold">>)>>) >>,
    << E("p", << A(<<"/", "x">>, <<T(<<"link">>)>>),
                 E("code", <<T(<<"code">>)>>) >>),
       E("pre", <<T(<<"block">>)>>),
       E("quote", <<T(<<"said">>)>>),
       E("span", <<E("emph", <<T(<<"it">>)>>)>>) >> }

\* The names msg.channel_id.name gives: Some(name) or None.
ChannelNames == { <<"opportunities">>, <<"Opportunities">>, <<"general">>, <<>> }

Calls ==
  { [fn |-> "get_last_posted_opportunity_id", history |-> h] : h \in Histories }
  \cup { [fn |-> "pull_from", text |-> t] : t \in Texts }
  \cup { [fn |-> "html_to_md", html |-> f, minimal |-> b] :
           f \in Fragments, b \in BOOLEAN }
  \cup { [fn |-> "get_url", link |-> DiscussionLink_new(t, 0)] : t \in RawTexts }
  \cup { [fn |-> "DiscussionPost_pull_from", link |-> l, page |-> pg] :
           l \in PostLinks, pg \in PostPages }
  \cup { [fn |-> "message", name |-> n, own |-> o, private |-> d,
          delOk |-> a, dmOk |-> b] :
            n \in ChannelNames, o \in BOOLEAN, d \in BOOLEAN,
            a \in BOOLEAN, b \in BOOLEAN }

PureInit ==
  /\ channel = [c \in TargetIds |-> <<>>]
  /\ nextMid = 1
  /\ listing = <<>>
  /\ pc = <<>>
  /\ channels = <<>>
  /\ target_posts = <<>>
  /\ last_posted_id = <<>>
  /\ newer_opportunities = <<>>
  /\ post = <<>>
  /\ humans = 0
  /\ passes = <<>>
  /\ sends = <<>>
  /\ blocks = {}
  /\ hooks = {}
  /\ call \in Calls
  /\ returned = <<>>

\* get_last_posted_opportunity_id on a history the platform reads without
\* error.
call_get_last_posted_opportunity_id ==
  /\ call.fn = "get_last_posted_opportunity_id"
  /\ returned = <<>>
  /\ returned' = <<LastPostedScan(call.history, Len(call.history))>>
  /\ UNCHANGED <<call, bot>>

\* DiscussionLink::pull_from on a text: it panics or returns links.
call_pull_from ==
  /\ call.fn = "pull_from"
  /\ returned = <<>>
  /\ returned' = IF pull_from_panics(call.text)
                 THEN <<[panic |-> TRUE, links |-> <<>>]>>
                 ELSE <<[panic |-> FALSE, links |-> pull_from(call.text)]>>
  /\ UNCHANGED <<call, bot>>

\* DiscussionPost::pull_from on the page fetched for a link.
call_DiscussionPost_pull_from ==
  /\ call.fn = "DiscussionPost_pull_from"
  /\ returned = <<>>
  /\ returned' = <<DiscussionPost_pull_from(call.link, call.page)>>
  /\ UNCHANGED <<call, bot>>

\* DiscussionLink::get_url on a link with any raw text.
call_get_url ==
  /\ call.fn = "get_url"
  /\ returned = <<>>
  /\ returned' = <<get_url(call.link)>>
  /\ UNCHANGED <<call, bot>>

\* html_to_md, or html_to_md_minimal, on an html.
call_html_to_md ==
  /\ call.fn = "html_to_md"
  /\ returned = <<>>
  /\ returned' = IF call.minimal THEN <<html_to_md_minimal(call.html)>>
                 ELSE <<html_to_md(call.html)>>
  /\ UNCHANGED <<call, bot>>

\* EventHandler::message on a message of any channel and any author.
call_message ==
  /\ call.fn = "message"
  /\ returned = <<>>
  /\ returned' = <<message_outcome(call.name, call.own, call.private,
                                  call.delOk, call.dmOk)>>
  /\ UNCHANGED <<call, bot>>

PureNext ==
  \/ call_get_last_posted_opportunity_id
  \/ call_message
  \/ call_pull_from
  \/ call_html_to_md
  \/ call_get_url
  \/ call_DiscussionPost_pull_from

PureSpec == PureInit /\ [][PureNext]_vars

\* ------------------------------------------------------------ properties
Passes == 1..Len(passes)
Sends == 1..Len(sends)

\* The ids pass p sent to the channel.
SentIds(p) == { sends[n].id : n \in { i \in Sends : sends[i].pass = p } }

\* The ids the listing page links, whatever their order and number.
ListingIdSet ==
  LET caps == Captures(listing, 1)
  IN { ParseDigits(caps[n].digits, 0) : n \in 1..Len(caps) }

HasOwn(history) == \E n \in 1..Len(history) : history[n].own

\* The messages of a history that the bot did not write and that are more
\* recent than the most recent message the bot wrote.
AboveAnchor(history) ==
  { history[n].mid : n \in { i \in 1..Len(history) :
       /\ ~history[i].own
       /\ \E j \in 1..(i - 1) : history[j].own
       /\ \A j \in (i + 1)..Len(history) : ~history[j].own } }

\* The messages pass p deleted, and those it called block_illegal_post for.
DeletedByPass(p) ==
  { b.mid : b \in { x \in blocks : x.by = "pass" /\ x.pass = p /\ x.deleted } }

BlockedByPass(p) ==
  { b.mid : b \in { x \in blocks : x.by = "pass" /\ x.pass = p } }

\* Pass p is the call of handle_channel its run of ready is in, at one of
\* the given places.
At(p, places) ==
  cur(passes[p].task) = p /\ pc[passes[p].task] \in places

\* Pass p has left delete_illegal_posts after reading the history.
ModerationOver(p) ==
  passes[p].scanned /\ ~At(p, {"moderate", "block", "notify"})

\* The passes on a channel, and the channel a message was sent to.
PassesOn(c) == { p \in Passes : passes[p].chan = c }

SentTo(n) == passes[sends[n].pass].chan

\* The passes on a channel came one after the other: each had returned
\* when the next started.
Sequential(c) ==
  \A p, q \in PassesOn(c) : p < q => p \in passes[q].ended

\* Pass q is the pass on its channel that follows pass p.
Follows(p, q) ==
  /\ passes[p].chan = passes[q].chan
  /\ p < q
  /\ ~\E r \in PassesOn(passes[p].chan) : p < r /\ r < q

\* C1: over any sequence of passes on one channel no discussion id is sent
\* to the channel twice, and a pass that follows a pass which completed
\* without error, the listing unchanged, sends nothing.
C1_ExactlyOnce ==
  \A c \in TargetIds : Sequential(c) =>
     /\ \A n, m \in Sends :
           n # m /\ SentTo(n) = c /\ SentTo(m) = c => sends[n].id # sends[m].id
     /\ \A p, q \in PassesOn(c) :
           Follows(p, q) /\ passes[p].result = "ok" => SentIds(q) = {}

\* C2: a moderation pass deletes only messages the bot did not write that
\* are more recent than the most recent message the bot wrote, it deletes
\* all of them when it completes, and every message of the history it read
\* that is gone from the channel was deleted by a block_illegal_post call.
C2_ModerationBoundary ==
  \A p \in Passes : passes[p].scanned =>
     LET h == passes[p].history
     IN /\ DeletedByPass(p) \subseteq AboveAnchor(h)
        /\ passes[p].moderated => DeletedByPass(p) = AboveAnchor(h)
        /\ \A n \in 1..Len(h) :
              \/ InChannel(h[n].mid)
              \/ \E b \in blocks : b.mid = h[n].mid /\ b.deleted /\ ~h[n].own
        /\ \A n \in 1..Len(h) :
              h[n].mid \in DeletedByPass(p) => ~InChannel(h[n].mid)

\* The history [human 'older-spam', self 'anchor', human 'spam'] (oldest
\* first) has lost only 'spam' to a completed moderation pass.
C2_Witness ==
  \E p \in Passes :
     /\ passes[p].moderated
     /\ Len(passes[p].history) = 3
     /\ passes[p].history[1] = OlderMessage
     /\ passes[p].history[2].own
     /\ ~passes[p].history[3].own
     /\ DeletedByPass(p) = {passes[p].history[3].mid}
     /\ InChannel(OlderMessage.mid)
     /\ InChannel(passes[p].history[2].mid)

\* C3: a moderation pass over a history without a message of the bot calls
\* block_illegal_post for no message (no deletion, no direct message).
C3_NoAnchorNoPurge ==
  \A p \in Passes :
     passes[p].scanned /\ ~HasOwn(passes[p].history) =>
        /\ BlockedByPass(p) = {}
        /\ passes[p].moderated

\* A pass has read a history of two human messages and no message of the
\* bot, and has gone on to forwarding with both still in the channel.
C3_Witness ==
  \E p \in Passes :
     /\ passes[p].scanned
     /\ ~HasOwn(passes[p].history)
     /\ Len(passes[p].history) = 2
     /\ passes[p].wm # <<>>
     /\ \A n \in 1..2 : InChannel(passes[p].history[n].mid)
     /\ blocks = {}

\* C4: once a pass has left moderation, block_illegal_post has been called
\* for every message it collected, whether or not a call failed.
C4_SiblingsAttempted ==
  \A p \in Passes :
     ModerationOver(p) /\ HasOwn(passes[p].history) =>
        AboveAnchor(passes[p].history) \subseteq BlockedByPass(p)

\* C5: a block_illegal_post call sends the direct message only if it deleted
\* the message; when the deletion fails it sends none and returns the
\* error, which ends the pass that made the call with an error.
C5_NotifyOnlyAfterDelete ==
  \A b \in blocks :
     /\ b.dm => b.deleted /\ ~InChannel(b.mid)
     /\ ~b.deleted => ~b.dm /\ b.ret = "err"
     /\ ~b.deleted /\ b.by = "pass" => passes[b.pass].result = "err"

\* The hook has deleted a message and notified its author, and a pass has
\* failed to delete another and has ended with the error.
C5_Witness ==
  /\ \E b \in blocks : b.by = "hook" /\ b.deleted /\ b.dm
  /\ \E b \in blocks : b.by = "pass" /\ ~b.deleted /\ ~b.dm
                         /\ passes[b.pass].result = "err"

\* C6: the messages a pass sends are in strictly ascending order of id, in
\* the order of sending and in the channel.
C6_AscendingOrder ==
  /\ \A n, m \in Sends :
        n < m /\ sends[n].pass = sends[m].pass =>
           sends[n].id < sends[m].id /\ sends[n].mid < sends[m].mid
  /\ \A c \in TargetIds : \A i \in 1..Len(channel[c]) :
        i > 1 => channel[c][i - 1].mid < channel[c][i].mid

\* A pass has sent 3 and then 5 from a listing that shows 5 before 3.
C6_Witness ==
  /\ listing = RenderListing(<<"5", "3", "0">>)
  /\ \E n \in Sends : /\ n + 1 \in Sends
                      /\ sends[n].pass = sends[n + 1].pass
                      /\ sends[n].id = 3
                      /\ sends[n + 1].id = 5

\* C7: a pass that completes without error has sent exactly the ids of the
\* listing that are greater than the watermark, each once.
C7_WatermarkFilter ==
  \A p \in Passes : passes[p].result = "ok" =>
     /\ SentIds(p) = { id \in ListingIdSet : id > passes[p].wm[1] }
     /\ \A n, m \in Sends :
           sends[n].pass = p /\ sends[m].pass = p /\ n # m =>
              sends[n].id # sends[m].id

\* With the ids 0, 3 and 5 listed and a watermark of 3, a pass has completed
\* and has sent only 5.
C7_Witness ==
  /\ ListingIdSet = {0, 3, 5}
  /\ \E p \in Passes : /\ passes[p].result = "ok"
                       /\ passes[p].wm = <<3>>
                       /\ SentIds(p) = {5}

\* C8: a pass over a channel without a message of the bot, whose watermark
\* is 0, that completes without error has sent every id of the listing, id
\* 0 included.
C8_WatermarkZeroForwardsAll ==
  \A p \in Passes :
     /\ passes[p].result = "ok"
     /\ ~HasOwn(passes[p].history)
     /\ passes[p].wm = <<0>>
     => SentIds(p) = ListingIdSet

\* C9: when the fetch or the send for id k fails, the pass ends with the
\* error, it has sent only ids smaller than k, and what it sent stays in
\* the channel, in the order of sending.
C9_StopOnFailure ==
  \A p \in Passes : passes[p].failedAt # <<>> =>
     /\ passes[p].result = "err"
     /\ ~At(p, {"forward", "send"})
     /\ \A n \in Sends : sends[n].pass = p => sends[n].id < passes[p].failedAt[1]
     /\ \A n \in Sends : InChannel(sends[n].mid)
     /\ \A n \in Sends : n > 1 => sends[n - 1].mid < sends[n].mid
     /\ \A c \in TargetIds : \A i \in 1..Len(channel[c]) :
           i > 1 => channel[c][i - 1].mid < channel[c][i].mid

\* One pass has failed at 3 and has sent nothing, 5 being listed; another
\* has sent 3 and failed at 5, and the message for 3 is in the channel.
C9_Witness ==
  /\ 5 \in ListingIdSet
  /\ \E p \in Passes : passes[p].failedAt = <<3>> /\ SentIds(p) = {}
  /\ \E p \in Passes : passes[p].failedAt = <<5>> /\ SentIds(p) = {3}
  /\ \E n \in Sends : sends[n].id = 3 /\ InChannel(sends[n].mid)

\* The largest id sent to the channel of pass p by the passes before p, 0
\* if none.
LargestSentBefore(p) ==
  LET ids == { sends[n].id : n \in { i \in Sends : /\ sends[i].pass < p
                                                   /\ SentTo(i) = passes[p].chan } }
  IN IF ids = {} THEN 0 ELSE CHOOSE k \in ids : \A x \in ids : x <= k

\* The largest id that had been sent to the channel of pass p when p read
\* the history for its watermark, 0 if none.
LargestSentWhenRead(p) ==
  LET ids == { sends[n].id : n \in { i \in 1..passes[p].seen :
                                       SentTo(i) = passes[p].chan } }
  IN IF ids = {} THEN 0 ELSE CHOOSE k \in ids : \A x \in ids : x <= k

\* The id pass p tried to forward first, <<>> if it has tried none.
FirstAttempt(p) ==
  LET mine == { i \in Sends : sends[i].pass = p }
  IN IF mine # {} THEN <<sends[CHOOSE i \in mine : \A x \in mine : i <= x].id>>
     ELSE passes[p].failedAt

\* C10: over a sequence of passes on one channel, the pass after a pass
\* whose forwarding stopped at a failing id k computes as watermark the
\* largest id sent so far, sends no id that was sent before, and tries k
\* first.
C10_Recovery ==
  \A c \in TargetIds : Sequential(c) =>
     \A q, p \in PassesOn(c) : Follows(q, p) /\ passes[q].failedAt # <<>> =>
        /\ passes[p].wm # <<>> => passes[p].wm[1] = LargestSentBefore(p)
        /\ \A n, m \in Sends :
              sends[n].pass < p /\ SentTo(n) = c /\ sends[m].pass = p =>
                 sends[n].id # sends[m].id
        /\ FirstAttempt(p) # <<>> => FirstAttempt(p) = passes[q].failedAt

\* C11: at the start of every pass the watermark that
\* get_last_posted_opportunity_id returns is the highest discussion id
\* already forwarded to the channel, 0 if none was forwarded, whatever the
\* forwarded posts contain.
C11_WatermarkIsHighestForwarded ==
  \A p \in Passes : passes[p].wm # <<>> =>
     passes[p].wm[1] = LargestSentWhenRead(p)

\* The ids of the links in a text, and the least of a set of ids.
IdsIn(text) ==
  LET caps == Captures(text, 1)
  IN { ParseDigits(caps[n].digits, 0) : n \in 1..Len(caps) }

Least(ids) == CHOOSE k \in ids : \A x \in ids : k <= x

\* The position of the most recent message of a history that satisfies P.
MostRecent(history, P(_)) ==
  CHOOSE n \in 1..Len(history) :
    P(history[n]) /\ \A m \in (n + 1)..Len(history) : ~P(history[m])

IsOwn(msg) == msg.own
IsOwnWithLink(msg) == msg.own /\ IdsIn(msg.text) # {}

WatermarkReturned ==
  call.fn = "get_last_posted_opportunity_id" /\ returned # <<>>

\* C12: get_last_posted_opportunity_id returns 0 for every history with no
\* message of the bot; for a history whose most recent message of the bot
\* contains links it returns the smallest id of that message (ids 3, 5 and
\* 9 give 3), whatever the messages of others above it contain.
C12_WatermarkValue ==
  WatermarkReturned =>
    LET h == call.history
    IN /\ ~HasOwn(h) => returned[1] = [panic |-> FALSE, id |-> 0]
       /\ HasOwn(h) /\ IdsIn(h[MostRecent(h, IsOwn)].text) # {} =>
             returned[1] =
               [panic |-> FALSE, id |-> Least(IdsIn(h[MostRecent(h, IsOwn)].text))]

C12_Witness ==
  /\ WatermarkReturned
  /\ Len(call.history) = 3
  /\ IdsIn(call.history[1].text) = {3, 5, 9}
  /\ call.history[1].own
  /\ ~call.history[2].own /\ IdsIn(call.history[2].text) = {1}
  /\ ~call.history[3].own
  /\ returned[1].id = 3

\* C13 as stated: the scan of get_last_posted_opportunity_id ends at the
\* most recent message of the bot; if that message has no link the
\* watermark is 0, and no older message of the bot is used.
C13_ScanEndsAtFirstOwn ==
  WatermarkReturned =>
    LET h == call.history
    IN HasOwn(h) /\ IdsIn(h[MostRecent(h, IsOwn)].text) = {} =>
         returned[1] = [panic |-> FALSE, id |-> 0]

\* C13 amended: the scan ends at the most recent message of the bot that
\* has a link, and the watermark is the smallest id of that message; a
\* message of the bot without a link is passed over like a message of
\* someone else, and the watermark is 0 when no message of the bot has a
\* link.
C13_ScanEndsAtFirstOwnWithLink ==
  WatermarkReturned =>
    LET h == call.history
        linked == \E n \in 1..Len(h) : IsOwnWithLink(h[n])
    IN returned[1] =
         [panic |-> FALSE,
          id |-> IF linked THEN Least(IdsIn(h[MostRecent(h, IsOwnWithLink)].text))
                 ELSE 0]

C13_Witness ==
  /\ WatermarkReturned
  /\ Len(call.history) = 3
  /\ call.history[1].own /\ IdsIn(call.history[1].text) = {3, 5, 9}
  /\ call.history[2].own /\ IdsIn(call.history[2].text) = {7}
  /\ call.history[3].own /\ IdsIn(call.history[3].text) = {}
  /\ returned[1].id = 7

\* C14: for every incoming message the hook deletes the message and then
\* notifies its author if and only if the message is in a channel named
\* "opportunities" and was not written by the bot; a message of the bot
\* and a message of another channel are never deleted by the hook.
C14_HookBlocksIffTargetAndHuman ==
  call.fn = "message" /\ returned # <<>> =>
    LET target == call.name = <<"opportunities">>
        r == returned[1]
    IN /\ r.branch = "block" <=> target /\ ~call.own
       /\ r.deleted <=> target /\ ~call.own /\ call.delOk
       /\ r.dm <=> r.deleted /\ call.dmOk
       /\ call.own \/ ~target => ~r.deleted /\ ~r.dm

C14_Witness ==
  /\ call.fn = "message" /\ returned # <<>>
  /\ call.name = <<"opportunities">> /\ ~call.own
  /\ returned[1].deleted /\ returned[1].dm

PullFromReturned == call.fn = "pull_from" /\ returned # <<>>

\* C15: for every text, the links DiscussionLink::pull_from returns have
\* no duplicate id and are in strictly ascending order of id, whatever the
\* order and the number of the occurrences in the text.
C15_ExtractionShape ==
  PullFromReturned /\ ~returned[1].panic =>
    LET links == returned[1].links
    IN /\ \A n \in 1..(Len(links) - 1) : links[n].id < links[n + 1].id
       /\ { links[n].id : n \in 1..Len(links) } = IdsIn(call.text)

C15_Witness ==
  /\ PullFromReturned
  /\ call.text = <<BASE, "9", BASE, "3", BASE, "9">>
  /\ Len(returned[1].links) = 2
  /\ returned[1].links[1].id = 3
  /\ returned[1].links[2].id = 9

\* C16: DiscussionLink::pull_from returns for every text, also when a
\* run of digits it matches denotes a number greater than 65535.
C16_ExtractNeverFails ==
  PullFromReturned => ~returned[1].panic

PostReturned == call.fn = "DiscussionPost_pull_from" /\ returned # <<>>

\* C17 as stated: when the fetched page lacks the comment markup, or lacks
\* the author or the body inside it, DiscussionPost::pull_from still
\* returns a post, with sentinel values, and not an error.
C17_MissingContentNoFailure ==
  PostReturned => returned[1].ok

\* C17 amended: when the fetched page has the comment markup but lacks the
\* author or the body inside it, DiscussionPost::pull_from returns a post
\* with "Unknown Author" or "Unable to find content for this post!!!" in
\* the place of what is missing; when the page lacks the comment markup
\* itself it returns an error and no post.
C17_SentinelsInsideCommentOnly ==
  PostReturned =>
    LET pg == call.page
        r == returned[1]
    IN /\ r.ok <=> pg.comment
       /\ pg.comment =>
            /\ r.url = call.link
            /\ pg.author = <<>> => r.author = <<"Unknown Author">>
            /\ pg.content = <<>> =>
                 r.content = <<"Unable to find content for this post!!!">>
            /\ pg.author # <<>> => r.author = Trim(NodeText(pg.author[1]))
            /\ pg.content # <<>> => r.content = Trim(NodeText(pg.content[1]))

C17_Witness ==
  /\ PostReturned
  /\ call.page.comment /\ call.page.author = <<>> /\ call.page.content # <<>>
  /\ returned[1].ok
  /\ returned[1].author = <<"Unknown Author">>
  /\ returned[1].content = <<"Hello", " ", "world">>

\* The message with the given id, for an id that is in the channel.
MessageOf(mid) ==
  LET c == CHOOSE x \in TargetIds :
             \E n \in 1..Len(channel[x]) : channel[x][n].mid = mid
  IN channel[c][CHOOSE n \in 1..Len(channel[c]) : channel[c][n].mid = mid]

\* C18: the content part of every forwarded message is html_to_md applied
\* to the body of the post's first comment, so that inline markup of the
\* body shows as markdown markers in the channel.
C18_ContentIsConvertedBody ==
  \A n \in Sends :
     sends[n].page.content # <<>> /\ InChannel(sends[n].mid) =>
       LET built == DiscussionPost_pull_from(sends[n].link, sends[n].page)
           converted == html_to_md(sends[n].page.content)
       IN MessageOf(sends[n].mid).text =
            ForwardedText([built EXCEPT !.content = converted])

RECURSIVE AllChars(_)
\* All the characters of a raw text.
AllChars(text) ==
  IF text = <<>> THEN <<>> ELSE Spell(Head(text)) \o AllChars(Tail(text))

\* The characters cs begin with the characters p.
Begins(cs, p) == Len(cs) >= Len(p) /\ SubSeq(cs, 1, Len(p)) = p

\* C19: get_url returns a text for every raw text, by the first rule that
\* applies: a raw text that starts with "http" unchanged; one that starts
\* with "github" or "www." after "https://"; one that starts with "/"
\* after "https://github.com"; any other after "https://github.com/".
C19_UrlResolution ==
  call.fn = "get_url" /\ returned # <<>> =>
    LET raw == call.link.content
        cs == AllChars(raw)
        url == returned[1]
    IN /\ Begins(cs, <<"h", "t", "t", "p">>) => url = raw
       /\ ~Begins(cs, <<"h", "t", "t", "p">>) =>
            /\ (Begins(cs, <<"g", "i", "t", "h", "u", "b">>)
                  \/ Begins(cs, <<"w", "w", "w", ".">>)) =>
                 url = <<"https://">> \o raw
            /\ Begins(cs, <<"/">>) => url = <<"https://github.com">> \o raw
            /\ (~Begins(cs, <<"g", "i", "t", "h", "u", "b">>)
                  /\ ~Begins(cs, <<"w", "w", "w", ".">>)
                  /\ ~Begins(cs, <<"/">>)) =>
                 url = <<"https://github.com/">> \o raw

C19_Witness ==
  /\ call.fn = "get_url" /\ returned # <<>>
  /\ call.link.content = <<"ww", "x">>
  /\ returned[1] = <<"https://github.com/", "ww", "x">>

ConvertedHeadingFragment ==
  /\ call.fn = "html_to_md" /\ ~call.minimal /\ returned # <<>>
  /\ call.html = HeadingFragment

\* C20 as stated: with headers written with "#", html_to_md of
\* <div><h1>This is a test</h1><p>Of <i>a</i> thing.</p></div>, with no
\* whitespace between the tags, is "# This is a test", two line breaks,
\* "Of _a_ thing.".
C20_HeadingExampleTwoBreaks ==
  ConvertedHeadingFragment =>
    returned[1] = <<"#", " ", "This is a test", "\n", "\n",
                    "Of", " ", "_", "a", "_", " ", "thing.">>

\* C20 amended: html_to_md of that html is "# This is a test", one line
\* break, "Of _a_ thing."; it is of the html of test_simple_html2md,
\* which has a line break between </h1> and <p>, that the result has two
\* line breaks there.
C20_HeadingExampleOneBreak ==
  /\ ConvertedHeadingFragment =>
       returned[1] = <<"#", " ", "This is a test", "\n",
                       "Of", " ", "_", "a", "_", " ", "thing.">>
  /\ (/\ call.fn = "html_to_md" /\ ~call.minimal /\ returned # <<>>
      /\ call.html = HeadingFragmentOfTest) =>
       returned[1] = <<"#", " ", "This is a test", "\n", "\n",
                       "Of", " ", "_", "a", "_", " ", "thing.">>

C20_Witness ==
  /\ ConvertedHeadingFragment
  /\ Len(returned[1]) = 11
  /\ returned[1][4] = "\n"
  /\ returned[1][5] = "Of"

\* The conversion table: what is written before and after the children of
\* an element.
Opening(node, bold) ==
  CASE node.name = "br" -> <<"\n">>
    [] node.name = "a" -> <<"[">>
    [] node.name \in {"i", "emph"} -> <<"_">>
    [] node.name \in {"b", "strong"} -> <<"**">>
    [] node.name = "code" -> <<BACKQUOTE>>
    [] node.name = "pre" -> <<"\n", BACKQUOTE, BACKQUOTE, BACKQUOTE, "\n">>
    [] node.name = "h1" -> IF bold THEN <<"\n", "**">> ELSE <<"\n", "#", " ">>
    [] node.name = "h2" -> IF bold THEN <<"\n", "**">> ELSE <<"\n", "#", "#", " ">>
    [] node.name = "h3" ->
         IF bold THEN <<"\n", "**">> ELSE <<"\n", "#", "#", "#", " ">>
    [] node.name = "quote" -> <<"\n", ">", " ">>
    [] OTHER -> <<>>

Closing(node, bold) ==
  CASE node.name \in {"p", "div", "tr"} -> <<"\n">>
    [] node.name = "a" ->
         IF node.href = <<>> THEN <<"]">>
         ELSE <<"]", "(">> \o node.href[1] \o <<")", " ">>
    [] node.name \in {"i", "emph"} -> <<"_">>
    [] node.name \in {"b", "strong"} -> <<"**">>
    [] node.name = "code" -> <<BACKQUOTE>>
    [] node.name = "pre" -> <<"\n", BACKQUOTE, BACKQUOTE, BACKQUOTE, "\n">>
    [] node.name \in {"h1", "h2", "h3"} -> IF bold THEN <<"**", "\n">> ELSE <<"\n">>
    [] node.name = "quote" -> <<"\n">>
    [] OTHER -> <<>>

ListedNames ==
  { "p", "div", "tr", "br", "a", "i", "emph", "b", "strong", "code", "pre",
    "h1", "h2", "h3", "quote" }

RECURSIVE Emitted(_, _)
\* The emissions of the table for the nodes of a sequence, depth first.
Emitted(nodes, bold) ==
  IF nodes = <<>> THEN <<>>
  ELSE LET node == Head(nodes)
           mine == IF node.kind = "text" THEN node.text
                   ELSE IF node.kind = "comment" THEN <<>>
                   ELSE IF node.name = "br" THEN Opening(node, bold)
                   ELSE Opening(node, bold) \o Emitted(node.kids, bold)
                          \o Closing(node, bold)
       IN mine \o Emitted(Tail(nodes), bold)

RECURSIVE TextOutsideComments(_)
\* The tokens of the text nodes of a sequence of nodes, in document order.
TextOutsideComments(nodes) ==
  IF nodes = <<>> THEN <<>>
  ELSE LET node == Head(nodes)
       IN (IF node.kind = "text" THEN node.text
           ELSE IF node.kind = "comment" THEN <<>>
           ELSE TextOutsideComments(node.kids))
            \o TextOutsideComments(Tail(nodes))

Words(text) == SelectSeq(text, LAMBDA token : token \notin Whitespace)

Converted == call.fn = "html_to_md" /\ returned # <<>>

\* C21: for every html of bounded depth over texts, comments and elements,
\* those with a rule and those without, html_to_md and html_to_md_minimal
\* return the emissions of the conversion table for the parsed tree, depth
\* first, trimmed at both ends; the words of every text node outside a
\* comment are in the result, in document order and once each; and an
\* element without a rule gives what its children give.
C21_RenderingRule ==
  Converted =>
    LET words == Words(TextOutsideComments(call.html))
        mine == { words[n] : n \in 1..Len(words) }
    IN /\ returned[1] = Trim(Emitted(Document_from(call.html), call.minimal))
       /\ SelectSeq(returned[1], LAMBDA token : token \in mine) = words
       /\ (/\ Len(call.html) = 1
           /\ call.html[1].kind = "elem"
           /\ call.html[1].name \notin ListedNames) =>
            returned[1] = walk(call.html[1].kids, call.minimal)

C21_Witness ==
  /\ Converted /\ ~call.minimal
  /\ call.html = << E("span", << E("h2", << T(<<"x", " ">>),
                                            E("i", <<T(<<"t">>)>>) >>) >>) >>
  /\ returned[1] = <<"#", "#", " ", "x", " ", "_", "t", "_">>

\* C22: if delete_illegal_posts returns an error (the history could not be
\* read, a deletion or a notification failed), handle_channel ends the
\* pass with that error: the pass computes no watermark, does not fetch
\* the forum and sends no forwarded message.
C22_ModerationFailureBlocksForwarding ==
  \A p \in Passes :
     /\ ~passes[p].moderated =>
          /\ passes[p].wm = <<>>
          /\ passes[p].listed = <<>>
          /\ SentIds(p) = {}
          /\ ~At(p, {"watermark", "fetch", "forward", "send"})
     /\ passes[p].stage = "moderation" =>
          /\ ~passes[p].moderated
          /\ passes[p].result = "err"
          /\ ~At(p, {"moderate", "block", "notify", "watermark", "fetch",
                     "forward", "send"})

\* A pass has deleted a message, has failed to notify its author and has
\* ended with the error without a send; the pass after it on the channel
\* has forwarded.
C22_Witness ==
  \E p, q \in Passes :
     /\ Follows(p, q)
     /\ passes[p].stage = "moderation" /\ passes[p].scanned
     /\ \E b \in blocks : /\ b.by = "pass" /\ b.pass = p
                          /\ b.deleted /\ ~b.dm /\ b.ret = "err"
     /\ SentIds(p) = {}
     /\ SentIds(q) # {}

\* C23: in a channel that holds a message of the bot from the start, a
\* message someone else has posted since and that the hook did not remove,
\* also one posted while a pass is between its scan for illegal posts and
\* its sends, is deleted by the next pass that completes without error: no
\* such message that a completed pass has read, and for which the hook has
\* returned, is still in the channel.
C23_LatePostsCaughtByNextPass ==
  \A p \in Passes :
     LET h == passes[p].history
     IN /\ passes[p].result = "ok"
        /\ \E n \in 1..Len(h) : h[n] = AnchorMessage
        => \A n \in 1..Len(h) :
              /\ ~h[n].own
              /\ h[n].mid > AnchorMessage.mid
              /\ ~\E k \in hooks : k.msg.mid = h[n].mid
              => ~InChannel(h[n].mid)

====
